---- MODULE Spec2Model ----
(***************************************************************************)
(* A model of dbset's Table/Database facade (sync_core.py; async_core.py   *)
(* has the same logic) over an abstract relational backend holding one     *)
(* table: the schema manager (schema.py), the filter builder (query.py)    *)
(* and the row operations insert, insert_many, update, upsert,             *)
(* upsert_many, delete, count, create_index, has_index and the             *)
(* transaction scope.                                                      *)
(***************************************************************************)
EXTENDS Naturals, Integers, FiniteSets, Sequences, TLC

\* Most rows the table may hold (inserts beyond it are not explored).
MaxRows == 2

\* Most rows of a batch handed to insert_many or upsert_many when the rows
\* of the batch may differ in their fields.
MaxBatch == 2

\* The longest table or column name an index name is generated from.
MaxNameLen == 29

\* The most digits and the largest exponent, either sign, of the Decimal
\* values types are inferred from; the largest precision, scale and length
\* of the type descriptors merged.
MaxDigits == 40
MaxExponent == 40
MaxParam == 3

\* Python's None / SQL NULL.
NULL == 0

\* Column names. "ghost" is a name callers pass that no row carries;
\* "name_age" is a column whose name is two others' joined by "_".
DataCols == {"name", "age"}
KeyNames == {"name", "age", "ghost"}
Cols == {"id", "uid", "name", "age", "name_age", "ghost"}
ColOrder == <<"id", "uid", "name", "age", "name_age", "ghost">>

NameVals == {1}
AgeVals == {1, 2}

\* ------------------------------------------------------------------------
\* Values handed around by the operations.

\* A caller's row: a mapping from some column names to values.
EmptyRow == [c \in {} |-> NULL]
Get(row, k) == IF k \in DOMAIN row THEN row[k] ELSE NULL
Restrict(f, S) == [c \in (DOMAIN f) \cap S |-> f[c]]
Without(f, S) == [c \in (DOMAIN f) \ S |-> f[c]]
Put(f, k, v) == [c \in (DOMAIN f) \cup {k} |-> IF c = k THEN v ELSE f[c]]

\* An optional number that is None.
Undefined == -1

Max(a, b) == IF a >= b THEN a ELSE b
Min(a, b) == IF a <= b THEN a ELSE b
Abs(a) == IF a < 0 THEN 0 - a ELSE a

\* What an operation hands back: a value, or the error it raised.
Ok(v) == [tag |-> "ok", val |-> v, err |-> ""]
Err(e) == [tag |-> "err", val |-> NULL, err |-> e]

\* PrimaryKeyConfig(): Integer kind, column `id`.
DefaultPk == [col |-> "id", kind |-> "integer"]

\* A generated UUID: a token no integer key equals.
UuidToken(n) == 10 + n
IsUuid(v) == v > 10

\* The list form of a set of column names.
AsList(S) == SelectSeq(ColOrder, LAMBDA c : c \in S)
AsSet(q) == {q[i] : i \in 1..Len(q)}

SetMax(S) == IF S = {} THEN 0 ELSE CHOOSE m \in S : \A x \in S : x <= m

\* ------------------------------------------------------------------------
\* The world an operation acts on: the backend's table (ex, pk, pkKind,
\* cols, rows, idx), the facade's cached handle h (the column names of the
\* Table object held in Table._table, {} when None), the count gen of
\* generated keys, and stmts, the statements issued so far by the call.

NoHandle == {}

EmptyWorld ==
    [ex |-> FALSE, pk |-> "id", pkKind |-> "integer", cols |-> {},
     types |-> {}, rows |-> {}, idx |-> {}, h |-> NoHandle, gen |-> 0,
     stmts |-> {}]

Issue(w, s) == [w EXCEPT !.stmts = @ \cup {s}]

\* A step's result: the world after it, the error raised ("" for none) and
\* the value returned.
Step(w, e, v) == [w |-> w, err |-> e, val |-> v]

\* ------------------------------------------------------------------------
\* FilterBuilder.build. A filter maps column names to [op, v]: op "eq" is a
\* bare value, op "nop" an operator mapping with no entry ({}).
Eq(v) == [op |-> "eq", v |-> v]
Nop == [op |-> "nop", v |-> NULL]
NoFilter == [c \in {} |-> Nop]

\* An operator mapping {operator: operand, ...} is the sequence of its
\* entries [op, arg]; an operand is [kind, items], kind being the Python
\* type of the operand ("scalar" for a value that is no collection) and
\* items its elements, the value itself for a scalar.
Map(clauses) == [op |-> "map", clauses |-> clauses]
Clause(operator, arg) == [op |-> operator, arg |-> arg]
Scalar(v) == [kind |-> "scalar", items |-> <<v>>]
ListOf(items) == [kind |-> "list", items |-> items]
TupleOf(items) == [kind |-> "tuple", items |-> items]
SetOf(items) == [kind |-> "set", items |-> items]

\* FilterBuilder.OPERATORS
Operators ==
    {"=", "==", "!=", ">", ">=", "<", "<=", "in", "not_in", "like", "ilike",
     "not_like", "startswith", "endswith", "contains", "is", "is_not",
     "between"}

\* isinstance(op_value, (list, tuple))
IsListOrTuple(arg) == arg.kind \in {"list", "tuple"}

BadOperand_Never(operator, arg) == FALSE

\* The operand checks of between and of in, not_in.
BadOperand(operator, arg) ==
    \/ operator = "between" /\ ~(IsListOrTuple(arg) /\ Len(arg.items) = 2)
    \/ operator \in {"in", "not_in"} /\ ~IsListOrTuple(arg)

BadClause(cl) == cl.op \notin Operators \/ BadOperand(cl.op, cl.arg)

\* The entry of one column makes build raise QueryError.
BadEntry(e) ==
    e.op = "map" /\ \E i \in 1..Len(e.clauses) : BadClause(e.clauses[i])

Build(tcols, filters) ==
    IF DOMAIN filters = {} THEN [tag |-> "none", f |-> NoFilter]
    ELSE IF \E c \in DOMAIN filters : c \notin tcols
         THEN [tag |-> "QueryError", f |-> NoFilter]
    ELSE IF \E c \in DOMAIN filters : BadEntry(filters[c])
         THEN [tag |-> "QueryError", f |-> NoFilter]
    ELSE LET cl == {c \in DOMAIN filters : filters[c].op # "nop"}
         IN  IF cl = {} THEN [tag |-> "none", f |-> NoFilter]
             ELSE [tag |-> "pred", f |-> Restrict(filters, cl)]

\* The backend's value of `column <operator> operand` is true for the value
\* x of the column. A comparison with NULL on either side is not true;
\* column == None is IS NULL and column != None is IS NOT NULL; an empty
\* NOT IN list is true of every row.
Holds(x, operator, arg) ==
    CASE operator \in {"=", "==", "is"} -> x = arg.items[1]
      [] operator \in {"!=", "is_not"} ->
            IF arg.items[1] = NULL THEN x # NULL
            ELSE x # NULL /\ x # arg.items[1]
      [] operator = ">" ->
            x # NULL /\ arg.items[1] # NULL /\ x > arg.items[1]
      [] operator = ">=" ->
            x # NULL /\ arg.items[1] # NULL /\ x >= arg.items[1]
      [] operator = "<" ->
            x # NULL /\ arg.items[1] # NULL /\ x < arg.items[1]
      [] operator = "<=" ->
            x # NULL /\ arg.items[1] # NULL /\ x <= arg.items[1]
      [] operator = "in" ->
            x # NULL /\ \E i \in 1..Len(arg.items) : arg.items[i] = x
      [] operator = "not_in" ->
            \/ arg.items = <<>>
            \/ /\ x # NULL
               /\ \A i \in 1..Len(arg.items) :
                     arg.items[i] # NULL /\ arg.items[i] # x
      [] operator = "between" ->
            /\ x # NULL /\ arg.items[1] # NULL /\ arg.items[2] # NULL
            /\ arg.items[1] <= x /\ x <= arg.items[2]

\* The clauses of one column's entry are true of the value x.
Sat(x, e) ==
    IF e.op = "map"
    THEN \A i \in 1..Len(e.clauses) :
            Holds(x, e.clauses[i].op, e.clauses[i].arg)
    ELSE x = e.v

\* A stored row satisfies a built predicate (column == None is IS NULL).
Matches(r, f) == \A c \in DOMAIN f : Sat(r[c], f[c])

\* parse_order_by: (column name, descending) of each column
\* specification, or QueryError. order_by is [kind, items], a str being
\* taken as the list of itself.
IsDesc(col_spec) == Len(col_spec) > 0 /\ SubSeq(col_spec, 1, 1) = "-"
ColumnOf(col_spec) == IF IsDesc(col_spec) THEN Tail(col_spec) ELSE col_spec

ParseOrderBy(tcols, order_by) ==
    IF \E i \in 1..Len(order_by.items) : ColumnOf(order_by.items[i]) \notin tcols
    THEN [tag |-> "QueryError", clauses |-> <<>>]
    ELSE [tag |-> "ok",
          clauses |-> [i \in 1..Len(order_by.items) |->
                          [column |-> ColumnOf(order_by.items[i]),
                           desc |-> IsDesc(order_by.items[i])]]]

\* ------------------------------------------------------------------------
\* The backend's constraints.

\* No two rows agree on every column of a unique index (NULLs never clash),
\* and no two rows share a primary key.
ConstraintsHold(w, rows) ==
    /\ \A r1, r2 \in rows : r1[w.pk] = r2[w.pk] => r1 = r2
    /\ \A i \in w.idx : i.unique =>
          \A r1, r2 \in rows :
             (r1 # r2 /\ \A c \in i.cols : r1[c] # NULL) =>
                \E c \in i.cols : r1[c] # r2[c]

\* ------------------------------------------------------------------------
\* TypeInference. A column type descriptor is [kind, precision, scale,
\* length]; a parameter that is None or that the kind does not have is
\* Undefined.

Plain(kind) ==
    [kind |-> kind, precision |-> Undefined, scale |-> Undefined,
     length |-> Undefined]
NumericOf(precision, scale) ==
    [Plain("Numeric") EXCEPT !.precision = precision, !.scale = scale]
StringOf(length) == [Plain("String") EXCEPT !.length = length]

\* isinstance(t, cls): SQLAlchemy's Text is a String, Float a Numeric, JSONB
\* a JSON.
IsInstance(t, cls) ==
    \/ t.kind = cls
    \/ t.kind = "Text" /\ cls = "String"
    \/ t.kind = "Float" /\ cls = "Numeric"
    \/ t.kind = "JSONB" /\ cls = "JSON"

\* MAX_PRECISION
MaxPrecision == 38

\* A Decimal is what as_tuple() shows of it: [special, nd, first, exp].
\* special is "" for a finite value and else the letter that as_tuple()
\* gives as exponent ("F" infinity, "n" NaN, "N" signaling NaN); nd is the
\* number of digits, first the first digit, exp the exponent.
\* `if precision > MAX_PRECISION: ...`
Capped(precision, scale) ==
    IF precision > MaxPrecision
    THEN [err |-> "", precision |-> MaxPrecision,
          scale |-> Min(scale, MaxPrecision)]
    ELSE [err |-> "", precision |-> precision, scale |-> scale]

\* _calculate_decimal_precision: (precision, scale), (None, None) for the
\* exponents "F" and "n"; any other letter reaches `exponent >= 0`, which
\* raises TypeError.
CalculateDecimalPrecision(value) ==
    IF value.special \in {"F", "n"}
    THEN [err |-> "", precision |-> Undefined, scale |-> Undefined]
    ELSE IF value.nd = 1 /\ value.first = 0
    THEN [err |-> "", precision |-> 1, scale |-> 0]
    ELSE IF value.special # ""
    THEN [err |-> "TypeError", precision |-> Undefined, scale |-> Undefined]
    ELSE IF value.exp >= 0 THEN Capped(value.nd + value.exp, 0)
    ELSE Capped(value.nd, Abs(value.exp))

\* infer_type, for a Decimal whose precision and scale are ps.
InferDecimal(ps) ==
    IF ps.err # "" THEN [err |-> ps.err, type |-> Plain("none")]
    ELSE IF ps.precision = Undefined THEN [err |-> "", type |-> Plain("Float")]
    ELSE [err |-> "", type |-> NumericOf(ps.precision, ps.scale)]

\* infer_type. value.py is the Python type of the value.
InferType(value, dialect) ==
    CASE value.py = "NoneType" -> [err |-> "", type |-> Plain("Text")]
      [] value.py = "bool" -> [err |-> "", type |-> Plain("Boolean")]
      [] value.py = "int" -> [err |-> "", type |-> Plain("Integer")]
      [] value.py = "Decimal" -> InferDecimal(CalculateDecimalPrecision(value))
      [] value.py = "float" -> [err |-> "", type |-> Plain("Float")]
      [] value.py = "datetime" -> [err |-> "", type |-> Plain("DateTime")]
      [] value.py = "date" -> [err |-> "", type |-> Plain("Date")]
      [] value.py \in {"str", "bytes"} -> [err |-> "", type |-> Plain("Text")]
      [] value.py \in {"dict", "list"} ->
            [err |-> "",
             type |-> IF dialect = "postgresql" THEN Plain("JSONB")
                      ELSE Plain("JSON")]
      [] OTHER -> [err |-> "TypeInferenceError", type |-> Plain("none")]

\* `if max_precision < max_scale: max_precision = max_scale`
MergedPrecision(max_precision, max_scale) ==
    IF max_precision < max_scale THEN max_scale ELSE max_precision

\* _merge_numeric_types
MergeNumericTypes(type1, type2) ==
    IF Undefined \in {type1.precision, type2.precision,
                      type1.scale, type2.scale}
    THEN Plain("Numeric")
    ELSE NumericOf(MergedPrecision(Max(type1.precision, type2.precision),
                                   Max(type1.scale, type2.scale)),
                   Max(type1.scale, type2.scale))

MergeSame_First(type1, type2) == type1

\* merge_types, type(type1) == type(type2).
MergeSame(type1, type2) ==
    IF IsInstance(type1, "String") /\ IsInstance(type2, "String")
    THEN IF type1.length = Undefined \/ type2.length = Undefined
         THEN StringOf(Undefined)
         ELSE StringOf(Max(type1.length, type2.length))
    ELSE IF IsInstance(type1, "Numeric") /\ IsInstance(type2, "Numeric")
    THEN MergeNumericTypes(type1, type2)
    ELSE type1

\* merge_types
MergeTypes(type1, type2) ==
    IF type1.kind = type2.kind THEN MergeSame(type1, type2)
    ELSE IF IsInstance(type1, "Integer") /\ IsInstance(type2, "Float")
    THEN Plain("Float")
    ELSE IF IsInstance(type1, "Float") /\ IsInstance(type2, "Integer")
    THEN Plain("Float")
    ELSE IF IsInstance(type1, "Numeric") /\ IsInstance(type2, "Integer")
    THEN type1
    ELSE IF IsInstance(type1, "Integer") /\ IsInstance(type2, "Numeric")
    THEN type2
    ELSE IF IsInstance(type1, "Numeric") /\ IsInstance(type2, "Float")
    THEN Plain("Float")
    ELSE IF IsInstance(type1, "Float") /\ IsInstance(type2, "Numeric")
    THEN Plain("Float")
    ELSE IF IsInstance(type1, "Date") /\ IsInstance(type2, "DateTime")
    THEN Plain("DateTime")
    ELSE IF IsInstance(type1, "DateTime") /\ IsInstance(type2, "Date")
    THEN Plain("DateTime")
    ELSE IF IsInstance(type1, "String") /\ IsInstance(type2, "String")
    THEN Plain("Text")
    ELSE IF IsInstance(type1, "JSON") /\ IsInstance(type2, "JSON")
    THEN IF IsInstance(type1, "JSONB") \/ IsInstance(type2, "JSONB")
         THEN Plain("JSONB")
         ELSE Plain("JSON")
    ELSE Plain("Text")

\* A Python value that is no Decimal.
NonDecimal(py) == [py |-> py, special |-> "", nd |-> 0, first |-> 0, exp |-> 0]

\* The Python value held by a field: None, a str (the text of a UUID) or an
\* int.
PyValue(v) ==
    NonDecimal(IF v = NULL THEN "NoneType"
               ELSE IF IsUuid(v) THEN "str" ELSE "int")

\* infer_types_from_row
InferTypesFromRow(row, dialect) ==
    [c \in DOMAIN row |-> InferType(PyValue(row[c]), dialect).type]

\* Table._dialect: the engine's dialect name.
Dialect == "sqlite"

\* PrimaryKeyConfig.sqlalchemy_type: Integer, or String(36) for UUID.
PkType(pkc) == IF pkc.kind = "integer" THEN Plain("Integer") ELSE StringOf(36)

\* ------------------------------------------------------------------------
\* SyncSchemaManager.

CreateTable(w, pkc) ==
    Step([Issue(w, "CREATE TABLE") EXCEPT
              !.ex = TRUE, !.pk = pkc.col, !.pkKind = pkc.kind,
              !.cols = {pkc.col}, !.types = {<<pkc.col, PkType(pkc)>>}],
         "", {pkc.col})

\* get_table: reflect, return the table's structure, or create it.
SchemaGetTable(w, ensure_exists, pkc) ==
    IF w.ex THEN Step(w, "", w.cols)
    ELSE IF ~ensure_exists THEN Step(w, "TableNotFoundError", {})
    ELSE CreateTable(w, pkc)

\* add_column: ALTER TABLE <table> ADD COLUMN <column> <type>.
AddColumn(column_name) == "ADD COLUMN " \o column_name

EnsureColumns_All(w, t, columns) ==
    Step([w EXCEPT !.cols = @ \cup DOMAIN columns,
                   !.types = {p \in @ : p[1] \notin DOMAIN columns}
                             \cup {<<n, columns[n]>> : n \in DOMAIN columns},
                   !.stmts = @ \cup {AddColumn(n) : n \in DOMAIN columns}],
         "", NULL)

\* ensure_columns: one add_column, with the type given for it, for every
\* name of columns that the handle t lacks.
EnsureColumns(w, t, columns) ==
    LET missing == DOMAIN columns \ t
    IN  IF missing = {} THEN Step(w, "", NULL)
        ELSE IF missing \cap w.cols # {} THEN Step(w, "SchemaError", NULL)
        ELSE Step([w EXCEPT !.cols = @ \cup missing,
                            !.types = @ \cup {<<n, columns[n]>> : n \in missing},
                            !.stmts = @ \cup {AddColumn(n) : n \in missing}],
                  "", NULL)

\* index_exists: reflect, compare column sets.
IndexExists(w, columns) ==
    w.ex /\ \E i \in w.idx : i.cols = AsSet(columns)

\* The table's name, and name=None of create_index.
TableName == "t"
NoName == ""

\* "_".join(columns)
RECURSIVE Join(_)
Join(columns) ==
    IF columns = <<>> THEN ""
    ELSE IF Len(columns) = 1 THEN columns[1]
    ELSE columns[1] \o "_" \o Join(Tail(columns))

\* The limit on identifiers (PostgreSQL's) and the length of the suffix
\* taken from the digest.
IdentifierLimit == 63
HashLen == 8

\* The sixteen hexadecimal digits, and the characters names are made of
\* here with the numbers that stand for their bytes.
HexDigits == <<"0", "1", "2", "3", "4", "5", "6", "7",
               "8", "9", "a", "b", "c", "d", "e", "f">>
Alphabet == <<"_", "a", "b", "d", "i", "t", "x">>
Byte(ch) == CHOOSE i \in 1..Len(Alphabet) : Alphabet[i] = ch

\* n as k hexadecimal digits.
RECURSIVE Hex(_, _)
Hex(n, k) ==
    IF k = 0 THEN "" ELSE Hex(n \div 16, k - 1) \o HexDigits[(n % 16) + 1]

\* A 16-bit checksum of the characters lo..hi of s: each byte weighs its
\* position plus m.
RECURSIVE Checksum(_, _, _, _)
Checksum(s, m, lo, hi) ==
    IF lo > hi THEN 0
    ELSE IF lo = hi THEN ((lo + m) * Byte(SubSeq(s, lo, lo))) % 65536
    ELSE (Checksum(s, m, lo, (lo + hi) \div 2)
          + Checksum(s, m, ((lo + hi) \div 2) + 1, hi)) % 65536

\* hashlib.md5(s.encode()).hexdigest(): hexadecimal digits computed from
\* the bytes of s and from nothing else. Two checksums stand for MD5; the
\* first eight digits are all that is ever used.
Md5HexDigest(s) ==
    Hex(Checksum(s, 0, 1, Len(s)), 4) \o Hex(Checksum(s, 7, 1, Len(s)), 4)

\* base_name = f"idx_{table_name}_{col_part}"
BaseName(table_name, columns) ==
    "idx_" \o table_name \o "_" \o Join(columns)

MaxPrefixLen_NoSeparator(hash_suffix) == IdentifierLimit - Len(hash_suffix)

\* max_prefix_len = 63 - len(hash_suffix) - 1
MaxPrefixLen(hash_suffix) == IdentifierLimit - Len(hash_suffix) - 1

\* f"{base_name[:max_prefix_len]}_{hash_suffix}"
Truncated(base_name, hash_suffix) ==
    SubSeq(base_name, 1, MaxPrefixLen(hash_suffix)) \o "_" \o hash_suffix

\* _generate_index_name: idx_<table>_<col1>_<col2>..., cut and given a
\* suffix from the digest when longer than the limit.
GenerateIndexName(table_name, columns) ==
    IF Len(BaseName(table_name, columns)) <= IdentifierLimit
    THEN BaseName(table_name, columns)
    ELSE Truncated(BaseName(table_name, columns),
                   SubSeq(Md5HexDigest(BaseName(table_name, columns)),
                          1, HashLen))

\* `index_name = name or self._generate_index_name(table.name, columns)`
IndexName(name, columns) ==
    IF name # NoName THEN name ELSE GenerateIndexName(TableName, columns)

\* index.create(conn, checkfirst=True): skipped when an index of that name
\* exists; a unique index the stored rows violate is refused by the backend
\* (SchemaError).
IndexCreate(w, index) ==
    IF \E i \in w.idx : i.name = index.name THEN Step(w, "", index.name)
    ELSE IF ~ConstraintsHold([w EXCEPT !.idx = @ \cup {index}], w.rows)
         THEN Step(Issue(w, "CREATE INDEX"), "SchemaError", NoName)
    ELSE Step([Issue(w, "CREATE INDEX") EXCEPT !.idx = @ \cup {index}],
              "", index.name)

\* create_index of the schema manager, on the handle t.
SchemaCreateIndex(w, t, columns, name, unique) ==
    IF columns = <<>> THEN Step(w, "ValueError", NoName)
    ELSE IF \E i \in 1..Len(columns) : columns[i] \notin t
         THEN Step(w, "ColumnNotFoundError", NoName)
    ELSE IF IndexExists(w, columns)
         THEN Step(w, "", IndexName(name, columns))
    ELSE IndexCreate(w, [name |-> IndexName(name, columns),
                         cols |-> AsSet(columns), unique |-> unique])

\* ------------------------------------------------------------------------
\* The backend executing a statement.

\* The key an Integer primary-key column gives a row stored without one.
NextKey(w) == SetMax({r[w.pk] : r \in w.rows}) + 1

StoredRow(w, row, pkv) ==
    [c \in Cols |-> IF c = w.pk THEN pkv ELSE Get(row, c)]

\* insert(table).values(**row) on the handle t. A field the handle lacks
\* fails when the statement is compiled; pool.acquire() reports every
\* failure as ConnectionError and the transaction is rolled back.
ExecInsert(w, t, row) ==
    IF ~(DOMAIN row \subseteq t) THEN Step(w, "ConnectionError", NULL)
    ELSE LET pkv == IF w.pk \in DOMAIN row THEN row[w.pk]
                    ELSE IF w.pkKind = "integer" THEN NextKey(w)
                    ELSE NULL
             new == StoredRow(w, row, pkv)
             bad == \/ pkv = NULL
                    \/ w.pkKind = "integer" /\ IsUuid(pkv)
                    \/ pkv \in {r[w.pk] : r \in w.rows}
                    \/ ~ConstraintsHold(w, w.rows \cup {new})
         IN  IF bad THEN Step(Issue(w, "INSERT"), "ConnectionError", NULL)
             ELSE Step([Issue(w, "INSERT") EXCEPT !.rows = @ \cup {new}],
                       "", pkv)

\* update(table).where(pred).values(**row): the rows matched are written,
\* rowcount is their number.
ExecUpdate(w, t, f, row) ==
    IF ~(DOMAIN row \subseteq t) THEN Step(w, "ConnectionError", NULL)
    ELSE LET hit == {r \in w.rows : Matches(r, f)}
             new == {IF r \in hit
                     THEN [c \in Cols |-> IF c \in DOMAIN row THEN row[c]
                                          ELSE r[c]]
                     ELSE r : r \in w.rows}
         IN  IF Cardinality(new) # Cardinality(w.rows)
                \/ ~ConstraintsHold(w, new)
             THEN Step(Issue(w, "UPDATE"), "ConnectionError", NULL)
             ELSE Step([Issue(w, "UPDATE") EXCEPT !.rows = new],
                       "", Cardinality(hit))

\* delete(table).where(pred).
ExecDelete(w, f) ==
    LET hit == {r \in w.rows : Matches(r, f)}
    IN  Step([Issue(w, "DELETE") EXCEPT !.rows = @ \ hit],
             "", Cardinality(hit))

\* delete(table).where(None): the statement is sent with WHERE NULL, which
\* no row satisfies.
ExecDeleteWhereNone(w) == Step(Issue(w, "DELETE WHERE NULL"), "", 0)

\* ------------------------------------------------------------------------
\* Table (the facade). c is the owning Database's configuration:
\* [ro, ens, pk] for _read_only, _ensure_schema and _pk_config.

\* `ensure if ensure is not None else self._ensure_schema`
Eff(c, ensure) == IF ensure = "none" THEN c.ens ELSE ensure = "true"

\* Each operation is a chain of steps; a step that raised ends it (the
\* `IF s.err # ""` of every definition that takes a step's result).

\* Table._get_table: the cached handle, loaded on first use.
Cached(g) ==
    IF g.err # "" THEN g ELSE Step([g.w EXCEPT !.h = g.val], "", g.val)

TableGet(c, w) ==
    IF w.h # NoHandle THEN Step(w, "", w.h)
    ELSE Cached(SchemaGetTable(w, c.ens, DefaultPk))

\* The gate of a mutating operation.
ReadOnlyGate(c) == c.ro

\* insert: the statement x is executed; the key returned is the generated
\* one, or inserted_primary_key for an Integer key.
Inserted(c, row1, x) ==
    IF x.err # "" THEN x
    ELSE Step(x.w, "",
              IF c.pk.kind # "integer" THEN Get(row1, c.pk.col) ELSE x.val)

InsertExecute(c, w, t, row1) == Inserted(c, row1, ExecInsert(w, t, row1))

\* insert: when ensuring, the columns of the row are added (e), the cached
\* handle is dropped and the table is fetched again.
InsertEnsured(c, row1, e) ==
    IF e.err # "" THEN e
    ELSE InsertExecute(c, [e.w EXCEPT !.h = NoHandle], e.w.cols, row1)

InsertEnsure(c, w, t, row1, ens) ==
    IF ~ens THEN InsertExecute(c, w, t, row1)
    ELSE InsertEnsured(c, row1, EnsureColumns(w, t, InferTypesFromRow(row1, Dialect)))

\* PrimaryKeyConfig.generator: None for the Integer kind.
HasGenerator(pkc) == pkc.kind # "integer"

\* insert: a key is generated when row has none and the configuration has
\* a generator (UUID, custom).
InsertKeyed(c, w, t, row, ens) ==
    IF c.pk.col \notin DOMAIN row /\ HasGenerator(c.pk)
    THEN InsertEnsure(c, [w EXCEPT !.gen = @ + 1], t,
                      Put(row, c.pk.col, UuidToken(w.gen + 1)), ens)
    ELSE InsertEnsure(c, w, t, row, ens)

\* insert: g is the table got or created.
InsertInto(c, g, row, ens) ==
    IF g.err # "" THEN g ELSE InsertKeyed(c, g.w, g.val, row, ens)

\* insert
TableInsert(c, w, row, ensure) ==
    IF ReadOnlyGate(c) THEN Step(w, "ReadOnlyError", NULL)
    ELSE InsertInto(c,
                    SchemaGetTable(w, Eff(c, ensure),
                                   IF Eff(c, ensure) THEN c.pk ELSE DefaultPk),
                    row, Eff(c, ensure))

\* conn.execute(insert(table), chunk): the rows of one chunk, in one
\* transaction; the statement's columns are the first row's.
RECURSIVE ExecInsertAll(_, _, _, _)
ExecInsertNext(x, t, rows, i) ==
    IF x.err # "" THEN x ELSE ExecInsertAll(x.w, t, rows, i + 1)

ExecInsertAll(w, t, rows, i) ==
    IF i > Len(rows) THEN Step(w, "", Len(rows))
    ELSE IF ~(DOMAIN rows[1] \subseteq DOMAIN rows[i])
         THEN Step(w, "ConnectionError", NULL)
    ELSE ExecInsertNext(ExecInsert(w, t, Restrict(rows[i], DOMAIN rows[1])),
                        t, rows, i)

\* A chunk that fails is rolled back by pool.acquire().
ChunkDone(w, x) ==
    IF x.err # "" THEN Step([w EXCEPT !.stmts = x.w.stmts], x.err, NULL)
    ELSE x

InsertManyExecute(w, t, rows) == ChunkDone(w, ExecInsertAll(w, t, rows, 1))

InsertManyEnsured(e, rows) ==
    IF e.err # "" THEN e
    ELSE InsertManyExecute([e.w EXCEPT !.h = NoHandle], e.w.cols, rows)

InsertManyInto(g, rows, ens) ==
    IF g.err # "" THEN g
    ELSE IF ~ens THEN InsertManyExecute(g.w, g.val, rows)
    ELSE InsertManyEnsured(EnsureColumns(g.w, g.val,
                                         InferTypesFromRow(rows[1], Dialect)),
                           rows)

\* insert_many
TableInsertMany(c, w, rows, ensure) ==
    IF ReadOnlyGate(c) THEN Step(w, "ReadOnlyError", NULL)
    ELSE IF rows = <<>> THEN Step(w, "", 0)
    ELSE InsertManyInto(SchemaGetTable(w, Eff(c, ensure), DefaultPk),
                        rows, Eff(c, ensure))

\* The SELECT of find and count, with the WHERE clause b.
Selected(w, b) ==
    IF b.tag = "QueryError" THEN Step(w, "QueryError", {})
    ELSE Step(Issue(w, "SELECT"), "", {r \in w.rows : Matches(r, b.f)})

\* find: the rows matching the filters, on the handle g.
FindOn(g, filters) ==
    IF g.err # "" THEN g ELSE Selected(g.w, Build(g.val, filters))

TableFind(c, w, filters) == FindOn(TableGet(c, w), filters)

\* count
Counted(f) == Step(f.w, f.err, Cardinality(f.val))

TableCount(c, w, filters) == Counted(TableFind(c, w, filters))

\* update: the keys that become the WHERE clause, and the fields written.
ValidKeys(t, row, keys) == {k \in keys : k \in t /\ k \in DOMAIN row}

UpdateFilters(t, row, keys, filters) ==
    IF keys # {} THEN [k \in ValidKeys(t, row, keys) |-> Eq(row[k])]
    ELSE filters

UpdateRow(row, keys) == IF keys # {} THEN Without(row, keys) ELSE row

NothingToWrite_Never(row1, keys) == FALSE

\* `if not row: return 0`, reached only when keys were given.
NothingToWrite(row1, keys) == keys # {} /\ DOMAIN row1 = {}

UpdateNeedsWhere_Never(b) == FALSE

\* `if where_clause is None: raise QueryError`
UpdateNeedsWhere(b) == b.tag = "none"

\* update: the statement is built on the handle t and executed.
UpdateWhere(w, t, row1, b) ==
    IF b.tag = "QueryError" THEN Step(w, "QueryError", NULL)
    ELSE IF UpdateNeedsWhere(b) THEN Step(w, "QueryError", NULL)
    ELSE ExecUpdate(w, t, b.f, row1)

\* update, on the handle g.
UpdateOn(g, row, keys, filters) ==
    IF g.err # "" THEN g
    ELSE IF NothingToWrite(UpdateRow(row, keys), keys) THEN Step(g.w, "", 0)
    ELSE UpdateWhere(g.w, g.val, UpdateRow(row, keys),
                     Build(g.val, UpdateFilters(g.val, row, keys, filters)))

\* update
TableUpdate(c, w, row, keys, filters) ==
    IF ReadOnlyGate(c) THEN Step(w, "ReadOnlyError", NULL)
    ELSE UpdateOn(TableGet(c, w), row, keys, filters)

\* delete: the statement is executed with whatever the builder returned.
DeleteWhere(w, b) ==
    IF b.tag = "QueryError" THEN Step(w, "QueryError", NULL)
    ELSE IF b.tag = "none" THEN ExecDeleteWhereNone(w)
    ELSE ExecDelete(w, b.f)

DeleteOn(g, filters) ==
    IF g.err # "" THEN g ELSE DeleteWhere(g.w, Build(g.val, filters))

\* delete
TableDelete(c, w, filters) ==
    IF ReadOnlyGate(c) THEN Step(w, "ReadOnlyError", NULL)
    ELSE IF DOMAIN filters = {} THEN Step(w, "QueryError", NULL)
    ELSE DeleteOn(TableGet(c, w), filters)

\* create_index / has_index of the facade
CreateIndexOn(g, columns, name, unique) ==
    IF g.err # "" THEN Step(g.w, g.err, NoName)
    ELSE SchemaCreateIndex(g.w, g.val, columns, name, unique)

TableCreateIndex(c, w, columns, name, unique) ==
    CreateIndexOn(TableGet(c, w), columns, name, unique)

HasIndexOn(g, columns) ==
    IF g.err # "" THEN g ELSE Step(g.w, "", IndexExists(g.w, columns))

TableHasIndex(c, w, columns) == HasIndexOn(TableGet(c, w), columns)

\* find_one: find with _limit=1; the first row the backend returns, taken
\* to be the one with the least primary key.
First(f) ==
    IF f.err # "" \/ f.val = {} THEN Step(f.w, f.err, {})
    ELSE Step(f.w, "",
              {CHOOSE r \in f.val : \A q \in f.val : r[f.w.pk] <= q[f.w.pk]})

TableFindOne(c, w, filters) == First(TableFind(c, w, filters))

\* The order the backend returns rows in: by the ORDER BY clauses, NULL
\* being the smallest value, and among equals (and without ORDER BY) by
\* primary key.
Precedes(a, b, clauses, pk) ==
    IF clauses # <<>> /\ a[clauses[1].column] # b[clauses[1].column]
    THEN IF clauses[1].desc
         THEN a[clauses[1].column] > b[clauses[1].column]
         ELSE a[clauses[1].column] < b[clauses[1].column]
    ELSE a[pk] < b[pk]

Least(rows, clauses, pk) ==
    CHOOSE r \in rows : \A q \in rows \ {r} : Precedes(r, q, clauses, pk)

RECURSIVE InOrder(_, _, _)
InOrder(rows, clauses, pk) ==
    IF rows = {} THEN <<>>
    ELSE <<Least(rows, clauses, pk)>>
         \o InOrder(rows \ {Least(rows, clauses, pk)}, clauses, pk)

\* `if _offset: stmt = stmt.offset(_offset)`
Offset(rows, offset) ==
    IF offset # 0 THEN SubSeq(rows, offset + 1, Len(rows)) ELSE rows

\* `if _limit: stmt = stmt.limit(_limit)`; None is Undefined.
Limit(rows, limit) ==
    IF limit # Undefined /\ limit # 0
    THEN SubSeq(rows, 1, Min(limit, Len(rows)))
    ELSE rows

\* No _order_by.
NoOrder == [kind |-> "none", items |-> <<>>]

\* The SELECT of find with its WHERE, ORDER BY, OFFSET and LIMIT.
SelectPage(w, b, clauses, limit, offset) ==
    Step(Issue(w, "SELECT"), "",
         Limit(Offset(InOrder({r \in w.rows : Matches(r, b.f)}, clauses, w.pk),
                      offset),
               limit))

Ordered(w, b, o, limit, offset) ==
    IF o.tag = "QueryError" THEN Step(w, "QueryError", <<>>)
    ELSE SelectPage(w, b, o.clauses, limit, offset)

Filtered(g, b, limit, offset, order_by) ==
    IF b.tag = "QueryError" THEN Step(g.w, "QueryError", <<>>)
    ELSE Ordered(g.w, b, ParseOrderBy(g.val, order_by), limit, offset)

FindPageOn(g, limit, offset, order_by, filters) ==
    IF g.err # "" THEN Step(g.w, g.err, <<>>)
    ELSE Filtered(g, Build(g.val, filters), limit, offset, order_by)

\* find(_limit, _offset, _order_by, **filters), iterated to its end: the
\* rows in the order they are yielded.
TableFindPage(c, w, limit, offset, order_by, filters) ==
    FindPageOn(TableGet(c, w), limit, offset, order_by, filters)

\* The ensure block of upsert and upsert_many: table, columns of `row`,
\* index on the keys that are columns, then the cached handle is dropped.
HandleDropped(i) ==
    IF i.err # "" THEN i ELSE Step([i.w EXCEPT !.h = NoHandle], "", NULL)

UpsertIndex(c, w, table_cols, keys) ==
    IF keys \cap table_cols = {} THEN HandleDropped(Step(w, "", NULL))
    ELSE HandleDropped(TableCreateIndex(c, w, AsList(keys \cap table_cols),
                                        NoName, FALSE))

UpsertColumns(c, e, table_cols, keys) ==
    IF e.err # "" THEN e ELSE UpsertIndex(c, e.w, table_cols, keys)

UpsertTable(c, g, row, keys) ==
    IF g.err # "" THEN g
    ELSE UpsertColumns(c, EnsureColumns(g.w, g.val, InferTypesFromRow(row, Dialect)),
                       g.val \cup DOMAIN row, keys)

UpsertEnsure(c, w, row, keys) ==
    UpsertTable(c, SchemaGetTable(w, TRUE, c.pk), row, keys)

LookupSwallows_Nothing(err) == FALSE

\* `except QueryError: existing = None`: the one error the lookup of upsert
\* turns into "no row found".
LookupSwallows(err) == err = "QueryError"

\* The value upsert returns after updating: existing.get('id').
ExistingKey(c, w, existing) ==
    IF "id" \in w.h THEN existing["id"] ELSE NULL

\* upsert, a row being found: self.update(row, keys=keys, ensure=ensure),
\* u, then the key of the row found.
Updated(c, w, existing, u) ==
    IF u.err # "" THEN u ELSE Step(u.w, "", ExistingKey(c, w, existing))

UpsertFound(c, w, row, keys, existing) ==
    Updated(c, w, existing,
            TableUpdate(c, w, row, keys, [k \in {"ensure"} |-> Eq(1)]))

\* upsert, after the lookup f: update the row found, or insert.
UpsertBranch(c, f, row, keys, ens) ==
    IF f.err # "" /\ ~LookupSwallows(f.err) THEN Step(f.w, f.err, NULL)
    ELSE IF f.err = "" /\ f.val # {}
         THEN UpsertFound(c, f.w, row, keys, CHOOSE r \in f.val : TRUE)
    ELSE TableInsert(c, f.w, row, IF ens THEN "true" ELSE "false")

\* upsert: the lookup by the original keys, row.get(k) for each.
UpsertLookup(c, w, row, keys, ens) ==
    UpsertBranch(c, TableFindOne(c, w, [k \in keys |-> Eq(Get(row, k))]),
                 row, keys, ens)

UpsertEnsured(c, p, row, keys) ==
    IF p.err # "" THEN p ELSE UpsertLookup(c, p.w, row, keys, TRUE)

\* upsert
TableUpsert(c, w, row, keys, ensure) ==
    IF ReadOnlyGate(c) THEN Step(w, "ReadOnlyError", NULL)
    ELSE IF Eff(c, ensure)
         THEN UpsertEnsured(c, UpsertEnsure(c, w, row, keys), row, keys)
    ELSE UpsertLookup(c, w, row, keys, FALSE)

\* The loop of upsert_many: upsert(row, keys, ensure=False) row by row.
RECURSIVE UpsertAll(_, _, _, _, _)
UpsertNext_Continue(c, u, rows, keys, i) ==
    UpsertAll(c, u.w, rows, keys, i + 1)

UpsertNext(c, u, rows, keys, i) ==
    IF u.err # "" THEN u ELSE UpsertAll(c, u.w, rows, keys, i + 1)

UpsertAll(c, w, rows, keys, i) ==
    IF i > Len(rows) THEN Step(w, "", Len(rows))
    ELSE UpsertNext(c, TableUpsert(c, w, rows[i], keys, "false"),
                    rows, keys, i)

UpsertManyEnsured(c, p, rows, keys) ==
    IF p.err # "" THEN p ELSE UpsertAll(c, p.w, rows, keys, 1)

\* upsert_many
TableUpsertMany(c, w, rows, keys, ensure) ==
    IF rows = <<>> THEN Step(w, "", 0)
    ELSE IF ReadOnlyGate(c) THEN Step(w, "ReadOnlyError", NULL)
    ELSE IF Eff(c, ensure)
         THEN UpsertManyEnsured(c, UpsertEnsure(c, w, rows[1], keys),
                                rows, keys)
    ELSE UpsertAll(c, w, rows, keys, 1)

\* ------------------------------------------------------------------------
\* sql_validator and ReadOnlyValidator. A text is a string; Char(s, i) is
\* its i-th character as a string of length 1.
Char(s, i) == SubSeq(s, i, i)

LowerLetters ==
    <<"a", "b", "c", "d", "e", "f", "g", "h", "i", "j", "k", "l", "m",
      "n", "o", "p", "q", "r", "s", "t", "u", "v", "w", "x", "y", "z">>
UpperLetters ==
    <<"A", "B", "C", "D", "E", "F", "G", "H", "I", "J", "K", "L", "M",
      "N", "O", "P", "Q", "R", "S", "T", "U", "V", "W", "X", "Y", "Z">>
Digits == {"0", "1", "2", "3", "4", "5", "6", "7", "8", "9"}

IsLower(ch) == \E i \in 1..26 : LowerLetters[i] = ch
IsUpper(ch) == \E i \in 1..26 : UpperLetters[i] = ch

\* str.upper(), one character and a whole text.
UpperChar(ch) ==
    IF IsLower(ch) THEN UpperLetters[CHOOSE i \in 1..26 : LowerLetters[i] = ch]
    ELSE ch

RECURSIVE Upper(_)
Upper(s) == IF s = "" THEN "" ELSE UpperChar(Char(s, 1)) \o Upper(Tail(s))

\* str.strip()
IsSpace(ch) == ch \in {" ", "\t", "\n", "\r"}

RECURSIVE LStrip(_)
LStrip(s) ==
    IF s # "" /\ IsSpace(Char(s, 1)) THEN LStrip(Tail(s)) ELSE s

RECURSIVE RStrip(_)
RStrip(s) ==
    IF s # "" /\ IsSpace(Char(s, Len(s)))
    THEN RStrip(SubSeq(s, 1, Len(s) - 1))
    ELSE s

Strip(s) == RStrip(LStrip(s))

\* str.startswith()
StartsWith(s, prefix) ==
    Len(s) >= Len(prefix) /\ SubSeq(s, 1, Len(prefix)) = prefix

\* FORBIDDEN_KEYWORDS
ForbiddenKeywords ==
    {"INSERT", "UPDATE", "DELETE", "DROP", "ALTER", "CREATE", "TRUNCATE",
     "GRANT", "REVOKE", "EXECUTE", "EXEC"}

\* \w of the regular expression.
IsWordChar(ch) == IsLower(ch) \/ IsUpper(ch) \/ ch \in Digits \/ ch = "_"

Boundary_Any(s, i) == TRUE

\* \b between the characters i-1 and i of s, one of them being a word
\* character: the other is none, or is beyond the text.
Boundary(s, i) == i < 1 \/ i > Len(s) \/ ~IsWordChar(Char(s, i))

\* re.IGNORECASE: the keyword, in any letter case, at position i of s.
MatchesAt(s, i, keyword) ==
    /\ i + Len(keyword) - 1 <= Len(s)
    /\ Upper(SubSeq(s, i, i + Len(keyword) - 1)) = keyword
    /\ Boundary(s, i - 1)
    /\ Boundary(s, i + Len(keyword))

\* FORBIDDEN_PATTERN.search(s)
ForbiddenFound(s) ==
    \E i \in 1..Len(s) : \E k \in ForbiddenKeywords : MatchesAt(s, i, k)

\* validate_readonly, for the stripped text: "" when it returns True, else
\* the message of the SQLValidationError.
Validated(sql_clean) ==
    IF sql_clean = "" THEN "Empty SQL query"
    ELSE IF ~StartsWith(Upper(sql_clean), "SELECT")
    THEN "Query must start with SELECT"
    ELSE IF ForbiddenFound(sql_clean) THEN "Forbidden keyword detected"
    ELSE ""

ValidateReadonly(sql) == Validated(Strip(sql))

\* ReadOnlyValidator.validate_sql: SQLValidationError becomes ReadOnlyError.
ValidateSql(sql) == IF ValidateReadonly(sql) # "" THEN "ReadOnlyError" ELSE ""

\* `if self._read_only and isinstance(sql, str): validate_sql(sql)`
QueryGate(c, sql) == IF c.ro THEN ValidateSql(sql) ELSE ""

\* Database.query(sql) for a str, iterated: the text is executed as it is.
Executed(w, sql, err) ==
    IF err # "" THEN Step(w, err, NULL) ELSE Step(Issue(w, sql), "", NULL)

DatabaseQuery(c, w, sql) == Executed(w, sql, QueryGate(c, sql))

\* ------------------------------------------------------------------------
\* State.
\*   cfg   the Database's configuration, fixed by connect()
\*   db    the backend's table and the facade's cached handle
\*   tx    the Database.transaction() scope: whether one is open and the
\*         backend as it was when the scope was entered
\*   last  the last call: its arguments, what it returned or raised, the
\*         statements it issued and the state it started from
\*   run   the callers that share the Database concurrently: the schema
\*         manager's metadata snapshot and each caller's position in its call
VARIABLES cfg, db, tx, last, run

vars == <<cfg, db, tx, last, run>>

\* The callers that run concurrently.
Callers == {"a", "b"}

\* MetaData after clear(): no table.
NoMeta == [has |-> FALSE, cols |-> {}]

\* A caller that has not called: its operation, its position pc, where it
\* goes on after reflect() (ret) and after get_table (next), the arguments
\* of its call, its local table handle, the columns left to add, what the
\* table check and the lookup saw, whether the table existed when it
\* called, and its result.
NoProc ==
    [op |-> "none", pc |-> "idle", ret |-> "", next |-> "", ensure |-> FALSE,
     row |-> EmptyRow, keys |-> {}, table |-> NoHandle, todo |-> {},
     exists |-> FALSE, seen |-> {}, was |-> FALSE, out |-> Ok(NULL)]

NoRun == [meta |-> NoMeta, proc |-> [p \in Callers |-> NoProc]]

NoCall ==
    [op |-> "connect", row |-> EmptyRow, keys |-> {}, filters |-> NoFilter,
     ensure |-> "none", batch |-> <<>>, columns |-> <<>>, name |-> NoName,
     unique |-> FALSE, index |-> NoName, out |-> Ok(NULL), stmts |-> {},
     pre |-> EmptyWorld]

\* The inputs the calls are tried with.
FullRows == {[name |-> n, age |-> a] : n \in NameVals, a \in AgeVals}
RowInputs ==
    FullRows \cup {[c \in {"name"} |-> n] : n \in NameVals}
             \cup {[c \in {"age"} |-> 1]}
KeyInputs == {k \in SUBSET KeyNames : Cardinality(k) < 3 /\ k # {"age", "ghost"}}
IndexInputs == {<<"name">>, <<"age">>, <<"name", "age">>, <<"ghost">>}
\* ensure=None and the explicit value that differs from the database's.
EnsureInputs == {"none", IF cfg.ens THEN "false" ELSE "true"}
FilterInputs ==
    {NoFilter}
    \cup {[c \in {"name"} |-> Eq(v)] : v \in NameVals}
    \cup {[c \in {"age"} |-> s] : s \in {Eq(v) : v \in AgeVals} \cup {Nop}}
    \cup {[c \in {"ghost"} |-> Eq(1)]}
CountInputs == {NoFilter, [c \in {"name"} |-> Eq(1)], [c \in {"ghost"} |-> Eq(1)]}
BatchInputs ==
    {<<>>} \cup {<<r>> : r \in FullRows}
    \cup {<<r1, r2>> : r1 \in FullRows, r2 \in FullRows}
BatchKeyInputs == {{"name"}, {"name", "age"}, {"ghost"}}

\* The model explores a table of at most MaxRows rows.
Fits(w) ==
    /\ Cardinality(w.rows) <= MaxRows
    /\ \A r \in w.rows : w.pkKind = "integer" => r[w.pk] <= MaxRows
    /\ w.gen <= MaxRows

\* No call is being looked at: the caller is free to make the next one.
Idle == last.op = "connect" \/ last.op = "return"

\* A call ends: its effects stay, and it is recorded. call holds its
\* arguments.
Recorded(call, r, v) ==
    /\ Idle
    /\ Fits(r.w)
    /\ db' = [r.w EXCEPT !.stmts = {}]
    /\ last' = [call EXCEPT !.out = IF r.err = "" THEN Ok(v) ELSE Err(r.err),
                            !.stmts = r.w.stmts, !.pre = db]
    /\ UNCHANGED <<cfg, tx, run>>

Done(op, row, keys, filters, ensure, batch, r, v) ==
    Recorded([NoCall EXCEPT !.op = op, !.row = row, !.keys = keys,
                            !.filters = filters, !.ensure = ensure,
                            !.batch = batch],
             r, v)

Insert(row, ensure) ==
    LET r == TableInsert(cfg, db, row, ensure)
    IN  Done("insert", row, {}, NoFilter, ensure, <<>>, r, r.val)

InsertMany(rows, ensure) ==
    LET r == TableInsertMany(cfg, db, rows, ensure)
    IN  Done("insert_many", EmptyRow, {}, NoFilter, ensure, rows, r, r.val)

Count(filters) ==
    LET r == TableCount(cfg, db, filters)
    IN  Done("count", EmptyRow, {}, filters, "none", <<>>, r, r.val)

Update(row, keys, filters) ==
    LET r == TableUpdate(cfg, db, row, keys, filters)
    IN  Done("update", row, keys, filters, "none", <<>>, r, r.val)

Upsert(row, keys, ensure) ==
    LET r == TableUpsert(cfg, db, row, keys, ensure)
    IN  Done("upsert", row, keys, NoFilter, ensure, <<>>, r, r.val)

UpsertMany(rows, keys, ensure) ==
    LET r == TableUpsertMany(cfg, db, rows, keys, ensure)
    IN  Done("upsert_many", EmptyRow, keys, NoFilter, ensure, rows, r, r.val)

Delete(filters) ==
    LET r == TableDelete(cfg, db, filters)
    IN  Done("delete", EmptyRow, {}, filters, "none", <<>>, r, r.val)

\* create_index(columns, name, unique); index is the name returned.
CreateIndexNamed(columns, name, unique) ==
    LET r == TableCreateIndex(cfg, db, columns, name, unique)
    IN  Recorded([NoCall EXCEPT !.op = "create_index",
                                !.keys = AsSet(columns),
                                !.columns = columns, !.name = name,
                                !.unique = unique, !.index = r.val],
                 r, NULL)

CreateIndex(columns) == CreateIndexNamed(columns, NoName, FALSE)

HasIndex(columns) ==
    LET r == TableHasIndex(cfg, db, columns)
    IN  Recorded([NoCall EXCEPT !.op = "has_index",
                                !.keys = AsSet(columns),
                                !.columns = columns],
                 r, IF r.val THEN 1 ELSE 0)

\* ------------------------------------------------------------------------
\* Database.transaction(). The scope holds a connection of its own, taken
\* with pool.acquire(); every Table operation takes another one with
\* pool.acquire() and commits when it returns, inside the scope as outside
\* of it. Nothing is ever executed on the scope's connection by a facade.

\* The scope is asked for. Read-only databases refuse.
TxEnter ==
    /\ Idle
    /\ ~tx.open
    /\ IF cfg.ro
       THEN /\ last' = [NoCall EXCEPT !.op = "transaction",
                                      !.out = Err("ReadOnlyError"),
                                      !.pre = db]
            /\ UNCHANGED tx
       ELSE /\ last' = [NoCall EXCEPT !.op = "transaction", !.pre = db]
            /\ tx' = [open |-> TRUE, snap |-> db]
    /\ UNCHANGED <<cfg, db, run>>

\* conn.begin() on a connection engine.begin() has already begun: engines
\* that refuse a second begin raise, and acquire() reports ConnectionError.
TxEnterRefused ==
    /\ Idle
    /\ ~tx.open
    /\ ~cfg.ro
    /\ last' = [NoCall EXCEPT !.op = "transaction",
                              !.out = Err("ConnectionError"), !.pre = db]
    /\ UNCHANGED <<cfg, db, tx, run>>

\* The scope is left normally: its connection commits.
TxExit ==
    /\ Idle
    /\ tx.open
    /\ tx' = [tx EXCEPT !.open = FALSE]
    /\ last' = [NoCall EXCEPT !.op = "commit", !.pre = db]
    /\ UNCHANGED <<cfg, db, run>>

\* An exception escapes the scope: its connection rolls back.
TxAbort ==
    /\ Idle
    /\ tx.open
    /\ tx' = [tx EXCEPT !.open = FALSE]
    /\ last' = [NoCall EXCEPT !.op = "rollback",
                              !.out = Err("ConnectionError"), !.pre = db]
    /\ UNCHANGED <<cfg, db, run>>

\* The caller has looked at the call's result and moves on.
Return ==
    /\ ~Idle
    /\ last' = [NoCall EXCEPT !.op = "return"]
    /\ UNCHANGED <<cfg, db, tx, run>>

\* ------------------------------------------------------------------------
\* A writable database with the default configuration.
Init ==
    /\ cfg = [ro |-> FALSE, ens |-> TRUE, pk |-> DefaultPk]
    /\ db = EmptyWorld
    /\ tx = [open |-> FALSE, snap |-> EmptyWorld]
    /\ last = NoCall
    /\ run = NoRun

Next ==
    \/ \E row \in RowInputs, e \in EnsureInputs : Insert(row, e)
    \/ \E f \in CountInputs : Count(f)
    \/ \E row \in RowInputs, keys \in KeyInputs, f \in FilterInputs :
          (keys = {} \/ f = NoFilter) /\ Update(row, keys, f)
    \/ \E row \in RowInputs, keys \in KeyInputs, e \in EnsureInputs :
          Upsert(row, keys, e)
    \/ \E f \in FilterInputs : Delete(f)
    \/ \E k \in IndexInputs : CreateIndex(k)
    \/ Return

Spec == Init /\ [][Next]_vars

\* ------------------------------------------------------------------------
\* A database opened read-only on a backend another connection has filled:
\* no table yet, or a table of up to MaxRows rows.
FilledWorld(n) ==
    [EmptyWorld EXCEPT
        !.ex = TRUE, !.cols = {"id", "name", "age"},
        !.types = {<<c, Plain("Integer")>> : c \in {"id", "name", "age"}},
        !.rows = {[c \in Cols |-> CASE c = "id" -> i
                                    [] c = "name" -> 1
                                    [] c = "age" -> IF i = 1 THEN 1 ELSE 2
                                    [] OTHER -> NULL] : i \in 1..n}]

InitRO ==
    /\ cfg \in [ro : {TRUE}, ens : BOOLEAN, pk : {DefaultPk}]
    /\ db \in {EmptyWorld} \cup {FilledWorld(n) : n \in 0..MaxRows}
    /\ tx = [open |-> FALSE, snap |-> EmptyWorld]
    /\ last = NoCall
    /\ run = NoRun

NextRO ==
    \/ \E row \in RowInputs, e \in EnsureInputs : Insert(row, e)
    \/ \E b \in BatchInputs, e \in EnsureInputs : InsertMany(b, e)
    \/ \E f \in CountInputs : Count(f)
    \/ \E row \in FullRows, keys \in KeyInputs, f \in FilterInputs :
          (keys = {} \/ f = NoFilter) /\ Update(row, keys, f)
    \/ \E row \in FullRows, keys \in KeyInputs, e \in EnsureInputs :
          Upsert(row, keys, e)
    \/ \E b \in BatchInputs, keys \in BatchKeyInputs, e \in EnsureInputs :
          UpsertMany(b, keys, e)
    \/ \E f \in FilterInputs : Delete(f)
    \/ \E k \in IndexInputs : CreateIndex(k)
    \/ \E k \in IndexInputs : HasIndex(k)
    \/ TxEnter
    \/ Return

SpecRO == InitRO /\ [][NextRO]_vars

\* ------------------------------------------------------------------------
\* A writable database used through transaction scopes.
NextTx ==
    \/ \E row \in FullRows : Insert(row, "none")
    \/ \E row \in RowInputs, f \in FilterInputs : Update(row, {}, f)
    \/ \E f \in FilterInputs : Delete(f)
    \/ TxEnter
    \/ TxEnterRefused
    \/ TxExit
    \/ TxAbort
    \/ Return

SpecTx == Init /\ [][NextTx]_vars

\* ------------------------------------------------------------------------
\* Writable databases with a configured primary key.
PkInputs ==
    {[col |-> "uid", kind |-> "integer"], [col |-> "id", kind |-> "uuid"],
     [col |-> "uid", kind |-> "uuid"]}

InitPk ==
    /\ cfg \in [ro : {FALSE}, ens : {TRUE}, pk : PkInputs]
    /\ db = EmptyWorld
    /\ tx = [open |-> FALSE, snap |-> EmptyWorld]
    /\ last = NoCall
    /\ run = NoRun

NextPk ==
    \/ \E row \in RowInputs : Insert(row, "none")
    \/ \E f \in CountInputs : Count(f)
    \/ \E row \in RowInputs, keys \in KeyInputs, e \in EnsureInputs :
          Upsert(row, keys, e)
    \/ Return

SpecPk == InitPk /\ [][NextPk]_vars

\* ------------------------------------------------------------------------
\* A writable database on which indexes are created by hand: by column
\* list in either order, with or without a name, unique or not.
WideRows == {[name |-> 1, age |-> a, name_age |-> 1] : a \in AgeVals}
ColumnListInputs ==
    {<<"name">>, <<"name", "age">>, <<"age", "name">>, <<"name_age">>,
     <<"ghost">>, <<>>}
NameInputs == {NoName, "custom"}

NextIdx ==
    \/ \E row \in WideRows \cup {[c \in {"name"} |-> 1]} : Insert(row, "none")
    \/ \E f \in CountInputs : Count(f)
    \/ \E k \in ColumnListInputs, n \in NameInputs, u \in BOOLEAN :
          CreateIndexNamed(k, n, u)
    \/ \E k \in ColumnListInputs : HasIndex(k)
    \/ Return

SpecIdx == Init /\ [][NextIdx]_vars

\* ------------------------------------------------------------------------
\* A writable database, ensuring the schema by default or not, used through
\* the batch operations with rows that may differ in their fields.
BatchRowInputs == FullRows \cup {[c \in {"name"} |-> 1]}

RECURSIVE Batches(_)
Batches(n) ==
    IF n = 0 THEN {<<>>}
    ELSE Batches(n - 1)
         \cup {Append(b, r) : b \in {x \in Batches(n - 1) : Len(x) = n - 1},
                              r \in BatchRowInputs}

InitMany ==
    /\ cfg \in [ro : {FALSE}, ens : BOOLEAN, pk : {DefaultPk}]
    /\ db = EmptyWorld
    /\ tx = [open |-> FALSE, snap |-> EmptyWorld]
    /\ last = NoCall
    /\ run = NoRun

NextMany ==
    \/ \E b \in BatchInputs, e \in EnsureInputs : InsertMany(b, e)
    \/ \E b \in Batches(MaxBatch), keys \in BatchKeyInputs, e \in EnsureInputs :
          UpsertMany(b, keys, e)
    \/ Count(NoFilter)
    \/ \E u \in BOOLEAN : CreateIndexNamed(<<"name">>, NoName, u)
    \/ Return

SpecMany == InitMany /\ [][NextMany]_vars

\* ------------------------------------------------------------------------
\* Writable databases of every primary-key configuration whose tables come
\* into being through any of the facade's paths, rows being inserted with
\* and without a key of the caller's.
SuppliedKey(pkc) == IF pkc.kind = "integer" THEN MaxRows ELSE UuidToken(MaxRows)

KeyRowInputs(pkc) ==
    {[c \in {"name"} |-> 1], [c \in {"name", pkc.col} |->
                                 IF c = "name" THEN 1 ELSE SuppliedKey(pkc)]}

InitKey ==
    /\ cfg \in [ro : {FALSE}, ens : {TRUE}, pk : PkInputs \cup {DefaultPk}]
    /\ db = EmptyWorld
    /\ tx = [open |-> FALSE, snap |-> EmptyWorld]
    /\ last = NoCall
    /\ run = NoRun

NextOfKey ==
    \/ \E row \in KeyRowInputs(cfg.pk) : Insert(row, "none")
    \/ \E b \in BatchInputs : InsertMany(b, "none")
    \/ \E row \in FullRows : Upsert(row, {"name"}, "none")
    \/ \E b \in BatchInputs : UpsertMany(b, {"name"}, "none")
    \/ Count(NoFilter)
    \/ Update([c \in {"age"} |-> 2], {}, [c \in {"name"} |-> Eq(1)])
    \/ Delete([c \in {"age"} |-> Eq(2)])
    \/ CreateIndex(<<"name">>)
    \/ HasIndex(<<"name">>)
    \/ Return

SpecKey == InitKey /\ [][NextOfKey]_vars

\* ------------------------------------------------------------------------
\* Index names generated for tables and columns with names of every length
\* up to MaxNameLen.
RECURSIVE Repeat(_, _)
Repeat(ch, n) == IF n = 0 THEN "" ELSE ch \o Repeat(ch, n - 1)

LongNames == {Repeat(ch, n) : ch \in {"a", "b"}, n \in 1..MaxNameLen}
TableNameInputs == {"t", Repeat("t", MaxNameLen)}
LongColumnLists ==
    {<<c>> : c \in LongNames}
    \cup {<<c1, c2>> : c1 \in {x \in LongNames : Head(x) = "a"},
                       c2 \in LongNames}

\* SyncSchemaManager._generate_index_name(table_name, columns)
GenerateName(table_name, columns) ==
    /\ Idle
    /\ last' = [NoCall EXCEPT !.op = "generate_index_name",
                              !.name = table_name, !.columns = columns,
                              !.index = GenerateIndexName(table_name, columns)]
    /\ UNCHANGED <<cfg, db, tx, run>>

NextName ==
    \/ \E t \in TableNameInputs, k \in LongColumnLists : GenerateName(t, k)
    \/ Return

SpecName == Init /\ [][NextName]_vars

\* ------------------------------------------------------------------------
\* Types inferred from values of every Python type, Decimals of up to
\* MaxDigits digits and exponents up to MaxExponent either way among them,
\* and type descriptors merged pairwise.
DecimalInputs ==
    {[py |-> "Decimal", special |-> "", nd |-> nd, first |-> 1, exp |-> e] :
        nd \in 1..MaxDigits, e \in (0 - MaxExponent)..MaxExponent}
    \cup {[py |-> "Decimal", special |-> "", nd |-> 1, first |-> 0, exp |-> e] :
             e \in (0 - MaxExponent)..MaxExponent}
    \cup {[py |-> "Decimal", special |-> "F", nd |-> 1, first |-> 0, exp |-> 0]}
    \cup {[py |-> "Decimal", special |-> x, nd |-> nd, first |-> IF nd = 0 THEN 0 ELSE 1,
            exp |-> 0] : x \in {"n", "N"}, nd \in 0..1}

ValueInputs ==
    DecimalInputs
    \cup {NonDecimal(py) : py \in {"NoneType", "bool", "int", "float",
                                     "datetime", "date", "str", "bytes",
                                     "dict", "list", "set"}}

DescriptorInputs ==
    {Plain(k) : k \in {"Boolean", "Integer", "Float", "Numeric", "Text",
                        "String", "Date", "DateTime", "JSON", "JSONB"}}
    \cup {NumericOf(p, sc) : p \in 1..MaxParam, sc \in 0..MaxParam}
    \cup {NumericOf(10, 2), NumericOf(8, 3)}
    \cup {StringOf(n) : n \in 1..MaxParam}

\* TypeInference.infer_type(value, dialect=dialect)
Infer(value, dialect) ==
    /\ Idle
    /\ last' = [op |-> "infer_type", value |-> value, dialect |-> dialect,
                result |-> InferType(value, dialect)]
    /\ UNCHANGED <<cfg, db, tx, run>>

\* TypeInference.merge_types(type1, type2)
Merge(type1, type2) ==
    /\ Idle
    /\ last' = [op |-> "merge_types", type1 |-> type1, type2 |-> type2,
                result |-> MergeTypes(type1, type2)]
    /\ UNCHANGED <<cfg, db, tx, run>>

NextTypes ==
    \/ \E v \in ValueInputs, d \in {"postgresql", "sqlite"} : Infer(v, d)
    \/ \E a \in DescriptorInputs, b \in DescriptorInputs : Merge(a, b)
    \/ Return

SpecTypes == Init /\ [][NextTypes]_vars

\* ------------------------------------------------------------------------
\* Filters and orderings built against a table of the columns id, name and
\* age: every operator, two that are none, and operands of every shape.
TableColumns == {"id", "name", "age"}

OperandInputs ==
    {Scalar(1), ListOf(<<>>), ListOf(<<1>>), ListOf(<<1, 2>>),
     ListOf(<<1, 2, 3>>), TupleOf(<<1, 2>>), SetOf(<<1, 2>>)}

ClauseInputs ==
    {Clause(o, a) : o \in Operators \cup {"BETWEEN", "~"}, a \in OperandInputs}

EntryInputs ==
    {Eq(1), Nop}
    \cup {Map(<<cl>>) : cl \in ClauseInputs}
    \cup {Map(<<Clause(">=", Scalar(1)), cl>>) : cl \in ClauseInputs}

\* The entries of a filter for name, age and ghost, a column whose entry is
\* Absent being left out.
Absent == [op |-> "absent", v |-> NULL]

Entries(n, a, g) ==
    [c \in {"name", "age", "ghost"} |->
        IF c = "name" THEN n ELSE IF c = "age" THEN a ELSE g]

FilterOf(n, a, g) ==
    Restrict(Entries(n, a, g),
             {c \in {"name", "age", "ghost"} : Entries(n, a, g)[c].op # "absent"})

BuildInputs ==
    {FilterOf(n, a, g) :
        n \in {Absent, Eq(1), Map(<<Clause("in", ListOf(<<1, 2>>))>>)},
        a \in EntryInputs \cup {Absent},
        g \in {Absent, Eq(1)}}

OrderInputs ==
    LET specs == {"age", "-age", "name", "ghost", "-ghost", "-"}
    IN  {[kind |-> "str", items |-> <<x>>] : x \in specs}
        \cup {[kind |-> "list", items |-> <<x>>] : x \in specs}
        \cup {[kind |-> "list", items |-> <<x, y>>] : x \in specs, y \in specs}

\* FilterBuilder.build(table, filters)
BuildFilter(filters) ==
    /\ Idle
    /\ last' = [op |-> "build", filters |-> filters,
                result |-> Build(TableColumns, filters)]
    /\ UNCHANGED <<cfg, db, tx, run>>

\* FilterBuilder.parse_order_by(table, order_by)
OrderBy(order_by) ==
    /\ Idle
    /\ last' = [op |-> "parse_order_by", order_by |-> order_by,
                result |-> ParseOrderBy(TableColumns, order_by)]
    /\ UNCHANGED <<cfg, db, tx, run>>

NextBuild ==
    \/ \E f \in BuildInputs : BuildFilter(f)
    \/ \E o \in OrderInputs : OrderBy(o)
    \/ Return

SpecBuild == Init /\ [][NextBuild]_vars

\* ------------------------------------------------------------------------
\* Rows inserted, some without an age, or upserted, and found again with
\* operator filters, orderings and pagination.
MaxLimit == 3

FindCall(limit, offset, order_by, filters) ==
    [op |-> "find", row |-> EmptyRow, keys |-> {}, filters |-> filters,
     ensure |-> "none", batch |-> <<>>, columns |-> <<>>, name |-> NoName,
     unique |-> FALSE, index |-> NoName, out |-> Ok(NULL), stmts |-> {},
     pre |-> EmptyWorld, limit |-> limit, offset |-> offset,
     order_by |-> order_by]

Find(limit, offset, order_by, filters) ==
    LET r == TableFindPage(cfg, db, limit, offset, order_by, filters)
    IN  Recorded(FindCall(limit, offset, order_by, filters), r, r.val)

AgeClauses ==
    {Clause(o, Scalar(v)) : o \in {"=", "!=", ">", ">=", "<", "<="},
                            v \in AgeVals}
    \cup {Clause(o, Scalar(NULL)) : o \in {"=", "!=", "is", "is_not"}}
    \cup {Clause(o, a) : o \in {"in", "not_in"},
                         a \in {ListOf(<<>>), ListOf(<<1>>), TupleOf(<<1, 2>>)}}
    \cup {Clause("between", ListOf(<<lo, hi>>)) : lo \in AgeVals, hi \in AgeVals}

FindFilters ==
    {FilterOf(n, a, Absent) :
        n \in {Absent, Eq(1)},
        a \in {Absent, Eq(1), Eq(NULL)}
              \cup {Map(<<cl>>) : cl \in AgeClauses}
              \cup {Map(<<Clause(">=", Scalar(1)), Clause("<", Scalar(2))>>)}}
    \cup {FilterOf(Absent, Absent, Eq(1))}

PageFilters == {NoFilter, [c \in {"age"} |-> Map(<<Clause(">=", Scalar(1))>>)]}

OrderChoices ==
    {NoOrder, [kind |-> "str", items |-> <<"-age">>],
     [kind |-> "list", items |-> <<"ghost">>]}

NextFind ==
    \/ \E row \in RowInputs : Insert(row, "none")
    \/ Count(NoFilter)
    \/ \E row \in FullRows : Upsert(row, {"name"}, "none")
    \/ \E f \in FindFilters : Find(Undefined, 0, NoOrder, f)
    \/ \E n \in {Undefined} \cup 0..MaxLimit, k \in 0..MaxLimit,
          o \in OrderChoices, f \in PageFilters : Find(n, k, o, f)
    \/ Return

SpecFind == Init /\ [][NextFind]_vars

\* ------------------------------------------------------------------------
\* Query texts validated, and run on databases read-only and writable.
SqlLead == {"", " ", "\n\t"}
SqlHead ==
    {"", "SELECT", "select", "SeLeCt", "SELECTED", "selec", "WITH", "INSERT",
     "(SELECT", "drop"}
SqlTail ==
    {"", " 1", " * FROM t", " drop", " DROP TABLE t", " drop_x", " xDROP",
     " DROPs", ";Delete FROM t", " created", " create", " exec", " EXECUTE",
     " executed", "(update)", " 'Insert'", " alter1", " truncate;",
     " Grant", " revoke\n", "--update", " _grant"}
SqlTrail == {"", " ", "\n"}

SqlInputs ==
    {a \o b \o c \o d : a \in SqlLead, b \in SqlHead, c \in SqlTail,
                        d \in SqlTrail}

InitSql ==
    /\ cfg \in [ro : BOOLEAN, ens : {TRUE}, pk : {DefaultPk}]
    /\ db = FilledWorld(1)
    /\ tx = [open |-> FALSE, snap |-> EmptyWorld]
    /\ last = NoCall
    /\ run = NoRun

\* validate_readonly(sql)
Validate(sql) ==
    /\ Idle
    /\ last' = [op |-> "validate_readonly", sql |-> sql,
                result |-> ValidateReadonly(sql)]
    /\ UNCHANGED <<cfg, db, tx, run>>

\* list(db.query(sql))
Query(sql) ==
    Recorded([NoCall EXCEPT !.op = "query", !.name = sql],
             DatabaseQuery(cfg, db, sql), NULL)

NextSql ==
    \/ \E sql \in SqlInputs : Validate(sql)
    \/ \E sql \in SqlInputs : Query(sql)
    \/ Return

SpecSql == InitSql /\ [][NextSql]_vars

\* ------------------------------------------------------------------------
\* Upserts on databases that ensure their schema and on databases that do
\* not, the table being absent, empty or filled.
InitLookup ==
    /\ cfg \in [ro : {FALSE}, ens : BOOLEAN, pk : {DefaultPk}]
    /\ db \in {EmptyWorld} \cup {FilledWorld(n) : n \in 0..MaxRows}
    /\ tx = [open |-> FALSE, snap |-> EmptyWorld]
    /\ last = NoCall
    /\ run = NoRun

NextLookup ==
    \/ \E row \in RowInputs, keys \in KeyInputs, e \in EnsureInputs :
          Upsert(row, keys, e)
    \/ \E row \in FullRows : Insert(row, "none")
    \/ Return

SpecLookup == InitLookup /\ [][NextLookup]_vars

\* ------------------------------------------------------------------------
\* Updates called with keys and keyword filters together.
InitUpdate ==
    /\ cfg \in [ro : {FALSE}, ens : BOOLEAN, pk : {DefaultPk}]
    /\ db \in {EmptyWorld} \cup {FilledWorld(n) : n \in 0..MaxRows}
    /\ tx = [open |-> FALSE, snap |-> EmptyWorld]
    /\ last = NoCall
    /\ run = NoRun

NextUpdate ==
    \/ \E row \in RowInputs, keys \in KeyInputs, f \in FilterInputs :
          Update(row, keys, f)
    \/ \E row \in FullRows : Insert(row, "none")
    \/ \E f \in FilterInputs : Delete(f)
    \/ Return

SpecUpdate == InitUpdate /\ [][NextUpdate]_vars

\* ------------------------------------------------------------------------
\* Upserts on a table of three data columns, one of which some stored rows
\* leave null.
WideRowInputs == RowInputs \cup {[name |-> 1, ghost |-> 1]}

NextBranch ==
    \/ \E row \in WideRowInputs : Insert(row, "none")
    \/ \E row \in RowInputs, keys \in KeyInputs, e \in EnsureInputs :
          Upsert(row, keys, e)
    \/ Return

SpecBranch == InitLookup /\ [][NextBranch]_vars

\* ------------------------------------------------------------------------
\* Every operation of the Table facade, on rows whose values for a column
\* are an int, None or a str from one call to the next.
TypedRowInputs ==
    {[c \in {"name"} |-> v] : v \in {1, NULL}}
    \cup {[name |-> 1, age |-> UuidToken(1)]}

NextColumns ==
    \/ \E row \in TypedRowInputs, e \in EnsureInputs : Insert(row, e)
    \/ \E row \in TypedRowInputs : InsertMany(<<row>>, "none")
    \/ \E row \in TypedRowInputs, keys \in {{"name"}, {"age"}} :
          Upsert(row, keys, "none")
    \/ \E row \in TypedRowInputs : UpsertMany(<<row>>, {"name"}, "none")
    \/ \E row \in TypedRowInputs : Update(row, {"name"}, NoFilter)
    \/ Delete([c \in {"name"} |-> Eq(1)])
    \/ Count(NoFilter)
    \/ CreateIndex(<<"name">>)
    \/ HasIndex(<<"name">>)
    \/ Return

SpecColumns == InitLookup /\ [][NextColumns]_vars

\* ------------------------------------------------------------------------
\* Concurrent callers on one Database: they share the schema manager, its
\* MetaData and the Table facade with its cached handle (db.h). A step is
\* what a caller does between two points where another caller can run: a
\* statement sent to the backend, or a read or write of the shared
\* MetaData.
Self(p) == run.proc[p]

At(p, pc) == Self(p).pc = pc

\* The caller p goes on as q; the MetaData becomes m and the backend w.
Goes(p, q, m, w) ==
    /\ run' = [meta |-> m, proc |-> [run.proc EXCEPT ![p] = q]]
    /\ db' = w
    /\ UNCHANGED <<cfg, tx, last>>

\* The call of p ends with the result out.
Ends(p, out, m, w) == Goes(p, [Self(p) EXCEPT !.pc = "done", !.out = out], m, w)

\* The call of p ends as the step x did.
EndsAs(p, x) ==
    Ends(p, IF x.err = "" THEN Ok(x.val) ELSE Err(x.err), run.meta, x.w)

\* p enters get_table(ensure_exists), to go on at next: reflect() first.
GetTable(q, ensure_exists, next) ==
    [q EXCEPT !.pc = "clear", !.ret = "look", !.next = next,
              !.ensure = ensure_exists]

\* SyncSchemaManager.get_table(name, ensure_exists), called by p.
CallGetTable(p, ensure_exists) ==
    /\ At(p, "idle")
    /\ Goes(p, GetTable([Self(p) EXCEPT !.op = "get_table", !.was = db.ex],
                        ensure_exists, "return"),
            run.meta, db)

\* Table.insert(row, ensure=True), called by p.
CallInsert(p, row) ==
    /\ At(p, "idle")
    /\ Goes(p, GetTable([Self(p) EXCEPT !.op = "insert", !.row = row,
                                         !.was = db.ex],
                        TRUE, "ensure"),
            run.meta, db)

\* _get_table, to go on at next: the cached handle, or get_table.
FacadeGetTable(q, next) ==
    IF db.h # NoHandle THEN [q EXCEPT !.pc = next, !.table = db.h]
    ELSE GetTable(q, cfg.ens, next)

\* Table.upsert(row, keys), called by p on a database that does not ensure
\* its schema: the lookup find_one comes first.
CallUpsert(p, row, keys) ==
    /\ At(p, "idle")
    /\ ~cfg.ens
    /\ Goes(p, FacadeGetTable([Self(p) EXCEPT !.op = "upsert", !.row = row,
                                               !.keys = keys, !.was = db.ex],
                              "select"),
            run.meta, db)

\* reflect: self._metadata.clear()
Clear(p) ==
    /\ At(p, "clear")
    /\ Goes(p, [Self(p) EXCEPT !.pc = "load"], NoMeta, db)

\* reflect: self._metadata.reflect(bind=conn)
Load(p) ==
    /\ At(p, "load")
    /\ Goes(p, [Self(p) EXCEPT !.pc = Self(p).ret],
            [has |-> db.ex, cols |-> db.cols], db)

\* get_table after reflect(): the table of the MetaData, TableNotFoundError
\* or create_table. _get_table keeps the table as the cached handle.
Look(p) ==
    /\ At(p, "look")
    /\ IF run.meta.has
       THEN Goes(p, [Self(p) EXCEPT !.pc = Self(p).next,
                                    !.table = run.meta.cols],
                 run.meta,
                 IF Self(p).next \in {"select", "update"}
                 THEN [db EXCEPT !.h = run.meta.cols] ELSE db)
       ELSE IF ~Self(p).ensure
       THEN Ends(p, Err("TableNotFoundError"), run.meta, db)
       ELSE Goes(p, [Self(p) EXCEPT !.pc = "define"], run.meta, db)

\* create_table: Table(table_name, self._metadata, pk column) puts the table
\* into the MetaData and fails if the MetaData has one of that name.
Define(p) ==
    /\ At(p, "define")
    /\ IF run.meta.has THEN Ends(p, Err("SchemaError"), run.meta, db)
       ELSE Goes(p, [Self(p) EXCEPT !.pc = "check", !.table = {cfg.pk.col}],
                 [has |-> TRUE, cols |-> {cfg.pk.col}], db)

\* table.create(conn, checkfirst=True): the check.
Check(p) ==
    /\ At(p, "check")
    /\ Goes(p, [Self(p) EXCEPT !.pc = "create", !.exists = db.ex],
            run.meta, db)

\* table.create(conn, checkfirst=True): CREATE TABLE unless the check saw
\* the table; then reflect(), and get_table returns the table defined.
Create(p) ==
    /\ At(p, "create")
    /\ IF ~Self(p).exists /\ db.ex
       THEN Ends(p, Err("SchemaError"), run.meta, db)
       ELSE Goes(p, [Self(p) EXCEPT !.pc = "clear", !.ret = Self(p).next],
                 run.meta,
                 IF Self(p).exists THEN db ELSE CreateTable(db, cfg.pk).w)

\* SyncSchemaManager.get_table returns the table.
Returned(p) ==
    /\ At(p, "return")
    /\ Ends(p, Ok(Self(p).table), run.meta, db)

\* ensure_columns: the columns of row that the table handle lacks.
Ensure(p) ==
    /\ At(p, "ensure")
    /\ Goes(p, [Self(p) EXCEPT !.pc = "alter",
                               !.todo = DOMAIN Self(p).row \ Self(p).table],
            run.meta, db)

\* The types ensure_columns passes to add_column for the column c.
ColumnOfRow(row, c) == Restrict(InferTypesFromRow(row, Dialect), {c})

\* add_column for c, then reflect().
Added(p, c, x) ==
    IF x.err # "" THEN EndsAs(p, x)
    ELSE Goes(p, [Self(p) EXCEPT !.pc = "clear", !.ret = "alter",
                                 !.todo = @ \ {c}],
              run.meta, x.w)

\* ensure_columns: add_column for one of the columns left; after the last
\* one insert drops the cached handle and calls get_table again.
Alter(p) ==
    /\ At(p, "alter")
    /\ IF Self(p).todo = {}
       THEN Goes(p, GetTable(Self(p), FALSE, "exec"), run.meta,
                 [db EXCEPT !.h = NoHandle])
       ELSE \E c \in Self(p).todo :
               Added(p, c, EnsureColumns(db, Self(p).table,
                                         ColumnOfRow(Self(p).row, c)))

ExecAfterLookup_Checked(w, t, row, keys) ==
    IF keys # {} /\ \E r \in w.rows : \A k \in keys : r[k] = Get(row, k)
    THEN Step(w, "", NULL)
    ELSE ExecInsert(w, t, row)

\* The INSERT of insert, also when upsert calls insert after a lookup by
\* keys that found no row: the statement is executed, nothing is looked up
\* again.
ExecAfterLookup(w, t, row, keys) == ExecInsert(w, t, row)

\* insert: conn.execute(insert(table).values(**row))
Exec(p) ==
    /\ At(p, "exec")
    /\ EndsAs(p, ExecAfterLookup(db, Self(p).table, Self(p).row, Self(p).keys))

\* upsert after its lookup f: an error other than QueryError ends the call,
\* a row found leads to update, no row to insert(row, ensure=False).
Looked(p, f) ==
    IF f.err # "" /\ ~LookupSwallows(f.err) THEN EndsAs(p, f)
    ELSE IF f.err = "" /\ f.val # {}
    THEN Goes(p, FacadeGetTable([Self(p) EXCEPT !.seen = f.val], "update"),
              run.meta, f.w)
    ELSE Goes(p, GetTable([Self(p) EXCEPT !.seen = {}], FALSE, "exec"),
              run.meta, f.w)

\* upsert: existing = self.find_one(**filters)
Select(p) ==
    /\ At(p, "select")
    /\ Looked(p, First(FindOn(Step(db, "", Self(p).table),
                              [k \in Self(p).keys |->
                                  Eq(Get(Self(p).row, k))])))

\* upsert: self.update(row, keys=keys), then existing.get('id').
UpdateFound(p) ==
    /\ At(p, "update")
    /\ EndsAs(p, Updated(cfg, [db EXCEPT !.h = Self(p).table],
                         CHOOSE r \in Self(p).seen : TRUE,
                         UpdateOn(Step(db, "", Self(p).table), Self(p).row,
                                  Self(p).keys, NoFilter)))

InitCallers ==
    /\ cfg = [ro |-> FALSE, ens |-> FALSE, pk |-> DefaultPk]
    /\ db \in {EmptyWorld} \cup {FilledWorld(n) : n \in 0..1}
    /\ tx = [open |-> FALSE, snap |-> EmptyWorld]
    /\ last = NoCall
    /\ run = NoRun

NextCallers ==
    \/ \E p \in Callers, e \in BOOLEAN : CallGetTable(p, e)
    \/ \E p \in Callers : CallInsert(p, [c \in {"name"} |-> 1])
    \/ \E p \in Callers, a \in AgeVals :
          CallUpsert(p, [name |-> 1, age |-> a], {"name"})
    \/ \E p \in Callers : Clear(p)
    \/ \E p \in Callers : Load(p)
    \/ \E p \in Callers : Look(p)
    \/ \E p \in Callers : Define(p)
    \/ \E p \in Callers : Check(p)
    \/ \E p \in Callers : Create(p)
    \/ \E p \in Callers : Returned(p)
    \/ \E p \in Callers : Ensure(p)
    \/ \E p \in Callers : Alter(p)
    \/ \E p \in Callers : Exec(p)
    \/ \E p \in Callers : Select(p)
    \/ \E p \in Callers : UpdateFound(p)

SpecCallers == InitCallers /\ [][NextCallers]_vars

\* ------------------------------------------------------------------------
\* Properties.

\* The columns the WHERE clause of the last update is built from: the valid
\* keys when keys were given, else the keyword filters carrying a condition.
UpdatePredicateCols ==
    IF last.keys # {}
    THEN {k \in last.keys : k \in db.h /\ k \in DOMAIN last.row}
    ELSE {c \in DOMAIN last.filters : last.filters[c].op # "nop"}

\* C1: no UPDATE is issued without a WHERE clause. When neither the keys
\* that survive nor the keyword filters yield a predicate, update ends with
\* QueryError, or with 0 when every field of row was a key, no UPDATE
\* statement is executed and the stored rows are what they were.
C1_UpdateNeedsPredicate ==
    /\ (last.op = "update" /\ UpdatePredicateCols = {}) =>
          /\ "UPDATE" \notin last.stmts
          /\ db.rows = last.pre.rows
          /\ \/ last.out = Err("QueryError")
             \/ last.out = Ok(0) /\ DOMAIN last.row \subseteq last.keys
    /\ "UPDATE" \in last.stmts =>
          last.op \in {"update", "upsert"} /\ UpdatePredicateCols # {}

\* An update on a filled table whose only key is not a column.
C1_Witness ==
    /\ last.op = "update"
    /\ UpdatePredicateCols = {}
    /\ last.keys # {}
    /\ last.pre.rows # {}
    /\ last.out = Err("QueryError")

\* C2: no DELETE is issued without a condition. A delete whose filters give
\* the builder nothing to build a predicate from (no filter at all, or only
\* filters without a condition) fails, executes no DELETE and removes no
\* row.
C2_DeleteNeedsPredicate ==
    (/\ last.op = "delete"
     /\ {c \in DOMAIN last.filters : last.filters[c].op # "nop"} = {}) =>
        /\ last.out.tag = "err"
        /\ last.stmts \cap {"DELETE", "DELETE WHERE NULL"} = {}
        /\ db.rows = last.pre.rows

\* The operations that write rows.
Mutators ==
    {"insert", "insert_many", "update", "upsert", "upsert_many", "delete"}

\* C3: on a read-only database each of insert, insert_many, update, upsert,
\* upsert_many and delete raises ReadOnlyError as its first step, whatever
\* its arguments, the empty list of rows included.
C3_MutatorsRefuse ==
    (cfg.ro /\ last.op \in Mutators) =>
        /\ last.out = Err("ReadOnlyError")
        /\ last.stmts = {}

\* What the backend holds: the table, its columns, rows and indexes.
Backend(w) == [ex |-> w.ex, cols |-> w.cols, rows |-> w.rows, idx |-> w.idx]

\* C4: on a read-only database no facade call changes the backend: no
\* table, column or index is created, no row is inserted, updated or
\* deleted.
C4_ReadOnlyChangesNothing ==
    (cfg.ro /\ ~Idle) => Backend(db) = Backend(last.pre)

Written(r, fields) ==
    [c \in Cols |-> IF c \in DOMAIN fields THEN fields[c] ELSE r[c]]

\* The row can be stored: schema is ensured, or its fields are columns.
Storable == Eff(cfg, last.ensure) \/ DOMAIN last.row \subseteq last.pre.cols

\* The rows stored before the call that agree with row on every key.
KeyMatches == {r \in last.pre.rows : \A k \in last.keys : r[k] = Get(last.row, k)}

\* C6: when every key is an existing column and present in row, upsert on
\* a table holding a row with those key values updates and inserts nothing
\* (same number of rows, the matching rows take row's values, the same
\* upsert again changes nothing); when no row matches, exactly one row is
\* inserted.
C6_UpsertUpdatesOrInserts ==
    (/\ last.op = "upsert"
     /\ last.keys # {}
     /\ last.pre.ex
     /\ last.keys \subseteq last.pre.cols
     /\ last.keys \subseteq DOMAIN last.row
     /\ Storable) =>
        /\ last.out.tag = "ok"
        /\ IF KeyMatches # {}
           THEN /\ db.rows = {IF r \in KeyMatches THEN Written(r, last.row)
                              ELSE r : r \in last.pre.rows}
                /\ Cardinality(db.rows) = Cardinality(last.pre.rows)
                /\ TableUpsert(cfg, db, last.row, last.keys,
                               last.ensure).w.rows = db.rows
           ELSE \E new \in db.rows \ last.pre.rows :
                   /\ db.rows = last.pre.rows \cup {new}
                   /\ \A c \in DOMAIN last.row : new[c] = last.row[c]

\* The state the existing-row lookup of the last upsert ran in: after the
\* ensure block when schema is ensured, else the state the call began in.
AtLookup ==
    IF Eff(cfg, last.ensure)
    THEN UpsertEnsure(cfg, last.pre, last.row, last.keys)
    ELSE Step(last.pre, "", NULL)

C8_UpsertReturnsKey ==
    (last.op = "upsert" /\ last.out.tag = "ok") =>
        \E r \in db.rows :
            /\ r[db.pk] = last.out.val
            /\ \A c \in DataCols \cap DOMAIN last.row : r[c] = last.row[c]

\* The keys of the last update that are existing columns and are in row.
ValidKeysOfCall ==
    {k \in last.keys : k \in last.pre.cols /\ k \in DOMAIN last.row}

\* C9: update(row, keys) ignores the keys that are no existing column or
\* are not in row, never writes a column named in keys, modifies exactly
\* the rows equal to row on the valid keys and returns their number
\* (stated for calls that keep a valid key and a field to write).
C9_UpdateByValidKeys ==
    (/\ last.op = "update"
     /\ last.pre.ex
     /\ ValidKeysOfCall # {}
     /\ DOMAIN last.row \ last.keys # {}
     /\ DOMAIN last.row \subseteq last.pre.cols) =>
        LET hit == {r \in last.pre.rows :
                       \A k \in ValidKeysOfCall : r[k] = last.row[k]}
        IN  /\ last.out = Ok(Cardinality(hit))
            /\ db.rows = {IF r \in hit
                          THEN Written(r, Without(last.row, last.keys))
                          ELSE r : r \in last.pre.rows}

\* An update with keys of which none is an existing column.
NoKeyIsColumn ==
    last.op = "update" /\ last.keys # {} /\ last.keys \cap last.pre.cols = {}

\* C10 as stated: such an update fails with QueryError, whatever fields row
\* contains and whatever rows are stored.
C10_AlwaysQueryError ==
    NoKeyIsColumn => last.out = Err("QueryError")

\* C10 amended: such an update fails with QueryError when row has a field
\* that is not named in keys, and returns 0 when every field of row is
\* named in keys; it issues no UPDATE and changes no row either way.
C10_QueryErrorOrZero ==
    NoKeyIsColumn =>
        /\ IF DOMAIN last.row \subseteq last.keys
           THEN last.out = Ok(0)
           ELSE last.out = Err("QueryError")
        /\ "UPDATE" \notin last.stmts
        /\ db.rows = last.pre.rows

\* Such an update of a filled table, every field of row being a key.
C10_Witness ==
    /\ NoKeyIsColumn
    /\ last.pre.rows # {}
    /\ DOMAIN last.row \subseteq last.keys
    /\ last.out = Ok(0)

\* The columns the last call issued an ADD COLUMN for.
AddedColumns == {c \in Cols : AddColumn(c) \in last.stmts}

\* The rows find(**row) returns after the last call, row being its argument.
FoundByRow ==
    TableFind(cfg, db, [c \in DOMAIN last.row |-> Eq(last.row[c])])

\* C11: after insert(row) with schema ensuring in effect returns normally
\* the table exists and has a column for every field of row; an ADD COLUMN
\* was issued for each field that was no column before (the primary-key
\* column of a table just created aside) and for none that was; find
\* returns a stored row equal to row on row's fields.
C11_InsertEnsuresSchema ==
    (/\ last.op = "insert"
     /\ Eff(cfg, last.ensure)
     /\ last.out.tag = "ok") =>
        /\ db.ex
        /\ DOMAIN last.row \subseteq db.cols
        /\ last.pre.cols \subseteq db.cols
        /\ AddedColumns \cap last.pre.cols = {}
        /\ (DOMAIN last.row \ last.pre.cols) \ {db.pk} \subseteq AddedColumns
        /\ FoundByRow.err = ""
        /\ \E r \in FoundByRow.val : \A c \in DOMAIN last.row : r[c] = last.row[c]
        /\ \E r \in TableFind(cfg, db, NoFilter).val :
              \A c \in DOMAIN last.row : r[c] = last.row[c]

\* An insert that adds one column to a table that has the other already.
C11_Witness ==
    /\ last.op = "insert"
    /\ Eff(cfg, last.ensure)
    /\ last.out.tag = "ok"
    /\ last.pre.ex
    /\ DOMAIN last.row \cap last.pre.cols # {}
    /\ AddedColumns # {}
    /\ AddedColumns = DOMAIN last.row \ last.pre.cols

\* The statements that change the schema.
Ddl == {"CREATE TABLE", "CREATE INDEX"} \cup {AddColumn(c) : c \in Cols}

\* The schema the backend holds: the table, its columns and its indexes.
Schema(w) == [ex |-> w.ex, cols |-> w.cols, idx |-> w.idx]

\* C12: insert, insert_many, upsert and upsert_many called with
\* ensure=False perform no DDL, whatever the state of the table: no table,
\* column or index is created; when the table is absent the call fails with
\* TableNotFoundError.
C12_NoDdlWithoutEnsure ==
    (/\ last.op \in {"insert", "insert_many", "upsert", "upsert_many"}
     /\ last.ensure = "false") =>
        /\ last.stmts \cap Ddl = {}
        /\ Schema(db) = Schema(last.pre)
        /\ ~last.pre.ex => last.out = Err("TableNotFoundError")

\* The last create_index call, made once more with the same arguments.
IndexAgain ==
    TableCreateIndex(cfg, db, last.columns, last.name, last.unique)

\* The indexes of w covering exactly the columns of the last call.
Covering(w) == {i \in w.idx : i.cols = AsSet(last.columns)}

\* C13: create_index(columns) called twice in a row returns the same name
\* both times, the second call raises no error and issues no CREATE INDEX,
\* exactly one index covers the column set afterwards, and has_index is
\* true after either call.
C13_CreateIndexTwice ==
    (last.op = "create_index" /\ last.out.tag = "ok") =>
        /\ IndexAgain.err = ""
        /\ IndexAgain.val = last.index
        /\ "CREATE INDEX" \notin IndexAgain.w.stmts
        /\ Cardinality(Covering(IndexAgain.w)) = 1
        /\ TableHasIndex(cfg, db, last.columns).val
        /\ TableHasIndex(cfg, IndexAgain.w, last.columns).val

\* C14: when create_index(columns, name) finds an index covering exactly
\* that set of columns, in whatever order, the name it returns is that
\* index's name: the name returned denotes an index of the table.
C14_ReturnsExistingName ==
    (/\ last.op = "create_index"
     /\ last.out.tag = "ok"
     /\ IndexExists(last.pre, last.columns)) =>
        /\ db.idx = last.pre.idx
        /\ \E i \in db.idx :
              i.cols = AsSet(last.columns) /\ i.name = last.index

\* The stored rows with a value in every column of the last call.
Valued == {r \in db.rows : \A c \in AsSet(last.columns) : r[c] # NULL}

\* C15: after create_index(columns, unique=True) returns normally a unique
\* index covers columns, whatever indexes the table had before, and an
\* insert repeating a stored row's values on columns fails.
C15_UniqueIsEnforced ==
    (last.op = "create_index" /\ last.unique /\ last.out.tag = "ok") =>
        /\ \E i \in db.idx : i.cols = AsSet(last.columns) /\ i.unique
        /\ \A r \in Valued :
              TableInsert(cfg, db, Restrict(r, AsSet(last.columns)),
                          "none").err # ""

\* The keys of the last call that are columns of the table.
IndexKeys == AsList(last.keys \cap db.cols)

\* C16: an upsert that ensures the schema never fails in its index step,
\* whatever was done through the table handle before, and when it returns
\* normally an index covers exactly the keys that are columns (has_index
\* is true for them).
C16_UpsertIndexesKeys ==
    (last.op = "upsert" /\ Eff(cfg, last.ensure)) =>
        /\ last.out # Err("ColumnNotFoundError")
        /\ (last.out.tag = "ok" /\ IndexKeys # <<>>) =>
              /\ IndexExists(db, IndexKeys)
              /\ TableHasIndex(cfg, db, IndexKeys).val

\* The state the row-by-row loop of the last upsert_many began in: after
\* the ensure block (run on the first row) when schema is ensured.
AtLoop ==
    IF Eff(cfg, last.ensure)
    THEN UpsertEnsure(cfg, last.pre, last.batch[1], last.keys)
    ELSE Step(last.pre, "", NULL)

\* upsert(row, keys, ensure=False) for the first n rows of the batch, one
\* after the other, from the world w.
RECURSIVE OneByOne(_, _)
OneByOne(w, n) ==
    IF n = 0 THEN w
    ELSE TableUpsert(cfg, OneByOne(w, n - 1), last.batch[n], last.keys,
                     "false").w

\* The upsert of row k of the batch, the rows before it being applied.
UpsertOfRow(k) ==
    TableUpsert(cfg, OneByOne(AtLoop.w, k - 1), last.batch[k], last.keys,
                "false")

\* The first row of the batch whose upsert fails (0: none).
FirstFailing ==
    IF \E k \in 1..Len(last.batch) : UpsertOfRow(k).err # ""
    THEN CHOOSE k \in 1..Len(last.batch) :
            /\ UpsertOfRow(k).err # ""
            /\ \A j \in 1..(k - 1) : UpsertOfRow(j).err = ""
    ELSE 0

\* C17: upsert_many applies the rows one at a time in list order, outside
\* any transaction: when the upsert of row k fails the caller gets its
\* error, what the rows before k did stays stored and no row after k is
\* applied.
C17_PartialBatchStays ==
    (/\ last.op = "upsert_many"
     /\ last.batch # <<>>
     /\ AtLoop.err = ""
     /\ FirstFailing # 0) =>
        /\ last.out = Err(UpsertOfRow(FirstFailing).err)
        /\ db.rows = OneByOne(AtLoop.w, FirstFailing - 1).rows
        /\ Backend(db) = Backend(UpsertOfRow(FirstFailing).w)

\* An upsert_many whose second row fails after the first was stored.
C17_Witness ==
    /\ last.op = "upsert_many"
    /\ last.batch # <<>>
    /\ AtLoop.err = ""
    /\ FirstFailing = 2
    /\ last.out.tag = "err"
    /\ db.rows # last.pre.rows

\* upsert(row, keys, ensure=e) for the first n rows of the last batch, one
\* call after the other from the state the batch call began in, e being
\* the batch call's ensure.
RECURSIVE EachUpserted(_)
EachUpserted(n) ==
    IF n = 0 THEN Step(last.pre, "", NULL)
    ELSE IF EachUpserted(n - 1).err # "" THEN EachUpserted(n - 1)
    ELSE TableUpsert(cfg, [EachUpserted(n - 1).w EXCEPT !.stmts = {}],
                     last.batch[n], last.keys, last.ensure)

\* The rows of a set that carry row's values on the keys of the last call.
SameKey(rows, row) == {r \in rows : \A k \in last.keys : r[k] = Get(row, k)}

\* The last row of the batch with the key values of row i.
LastOfKey(i) ==
    LET same == {j \in 1..Len(last.batch) :
                    \A k \in last.keys :
                        Get(last.batch[j], k) = Get(last.batch[i], k)}
    IN  last.batch[SetMax(same)]

\* C18: an upsert_many that succeeds returns len(rows) and leaves the
\* table as upsert(row, keys, ensure=e) called for each row in list order
\* leaves it. For keys that are columns and fields of every row: key values
\* found stored are updated and add no row, key values not stored add one
\* row however often the batch repeats them, and the stored rows carry the
\* values of the last row of the batch with their key values.
C18_BatchIsEachUpsert ==
    (last.op = "upsert_many" /\ last.out.tag = "ok") =>
        /\ last.out.val = Len(last.batch)
        /\ EachUpserted(Len(last.batch)).err = ""
        /\ Backend(db) = Backend(EachUpserted(Len(last.batch)).w)
        /\ \A i \in 1..Len(last.batch) :
              (/\ last.keys \subseteq db.cols
               /\ \A j \in 1..Len(last.batch) :
                     last.keys \subseteq DOMAIN last.batch[j]) =>
                 /\ Cardinality(SameKey(db.rows, last.batch[i]))
                       = IF SameKey(last.pre.rows, last.batch[i]) = {} THEN 1
                         ELSE Cardinality(SameKey(last.pre.rows, last.batch[i]))
                 /\ \A r \in SameKey(db.rows, last.batch[i]) :
                       \A c \in DOMAIN LastOfKey(i) : r[c] = LastOfKey(i)[c]

\* The rows the last call added.
NewRows == db.rows \ last.pre.rows

\* The keys stored before the last call in the configured key column.
KeysBefore == {r[cfg.pk.col] : r \in last.pre.rows}

\* C19: insert returns the stored primary key. With the Integer kind no
\* key is generated by this layer and the value returned is the integer the
\* backend gave the row; with a kind that has a generator and no key in
\* row, a generated value is stored and returned, different from every key
\* returned before; a key the caller supplied is stored and returned
\* unchanged.
C19_InsertReturnsKey ==
    (last.op = "insert" /\ last.out.tag = "ok") =>
        \E new \in NewRows :
            /\ NewRows = {new}
            /\ new[db.pk] = last.out.val
            /\ IF cfg.pk.col \in DOMAIN last.row
               THEN /\ last.out.val = last.row[cfg.pk.col]
                    /\ new[cfg.pk.col] = last.row[cfg.pk.col]
                    /\ db.gen = last.pre.gen
               ELSE IF cfg.pk.kind = "integer"
               THEN ~IsUuid(last.out.val) /\ db.gen = last.pre.gen
               ELSE /\ IsUuid(last.out.val)
                    /\ new[cfg.pk.col] = last.out.val
                    /\ last.out.val \notin KeysBefore
                    /\ db.gen = last.pre.gen + 1

\* C20: a table created by any facade call (insert, insert_many, upsert,
\* upsert_many, or the table lookup of find, count, update, delete,
\* create_index and has_index) has the primary-key column of the
\* database's configuration: its name and its kind.
C20_TableHasConfiguredKey ==
    "CREATE TABLE" \in last.stmts =>
        /\ db.ex
        /\ db.pk = cfg.pk.col
        /\ db.pkKind = cfg.pk.kind

\* The full name of the last generated index name: idx_<table>_<col1>_...
FullName == BaseName(last.name, last.columns)

\* The characters of s are hexadecimal digits.
RECURSIVE IsHex(_)
IsHex(s) ==
    s = "" \/ ((\E i \in 1..16 : HexDigits[i] = Head(s)) /\ IsHex(Tail(s)))

\* C21: the generated index name is at most 63 characters long and the
\* same whenever generated from the same table name and columns; it is the
\* full name idx_<table>_<col1>_<col2>... when that has at most 63
\* characters, else the first 54 characters of the full name, "_" and 8
\* hexadecimal digits that are a function of the full name.
C21_IndexNameBounded ==
    last.op = "generate_index_name" =>
        /\ Len(last.index) <= 63
        /\ last.index = GenerateIndexName(last.name, last.columns)
        /\ Len(FullName) <= 63 => last.index = FullName
        /\ Len(FullName) > 63 =>
              /\ Len(last.index) = 63
              /\ SubSeq(last.index, 1, 54) = SubSeq(FullName, 1, 54)
              /\ SubSeq(last.index, 55, 55) = "_"
              /\ IsHex(SubSeq(last.index, 56, 63))
              /\ SubSeq(last.index, 56, 63)
                    = SubSeq(Md5HexDigest(FullName), 1, 8)

\* A name generated from a full name of 64 characters.
C21_Witness ==
    /\ last.op = "generate_index_name"
    /\ Len(FullName) = 64
    /\ Len(last.index) = 63
    /\ last.index # SubSeq(FullName, 1, 63)

\* precision >= scale >= 0 when both are defined.
WellFormed(t) ==
    (t.kind = "Numeric" /\ t.precision # Undefined /\ t.scale # Undefined) =>
        t.precision >= t.scale /\ t.scale >= 0

\* The last call inferred the type of a finite Decimal.
FiniteDecimal ==
    last.op = "infer_type" /\ last.value.py = "Decimal"
    /\ last.value.special = ""

\* The Numeric descriptor inferred for a finite Decimal is well formed.
InferredWellFormed ==
    (FiniteDecimal /\ last.result.err = "") => WellFormed(last.result.type)

\* The descriptor merged from two Numeric operands is well formed.
MergedWellFormed ==
    (/\ last.op = "merge_types"
     /\ last.type1.kind = "Numeric"
     /\ last.type2.kind = "Numeric") => WellFormed(last.result)

\* C22: the Numeric descriptors infer produces for finite Decimals, and
\* those merge produces from two Numeric operands, have
\* precision >= scale >= 0 when both are defined.
C22_NumericWellFormed == InferredWellFormed /\ MergedWellFormed

\* The precision and scale the rule gives a finite Decimal of d digits and
\* exponent e, a precision beyond MAX_PRECISION being capped and the scale
\* with it.
RuleOf(value) ==
    IF value.nd = 1 /\ value.first = 0 THEN NumericOf(1, 0)
    ELSE IF value.exp >= 0
    THEN NumericOf(Min(value.nd + value.exp, MaxPrecision), 0)
    ELSE IF value.nd > MaxPrecision
    THEN NumericOf(MaxPrecision, Min(Abs(value.exp), MaxPrecision))
    ELSE NumericOf(value.nd, Abs(value.exp))

\* A finite Decimal yields the Numeric of the rule, of precision at most 38.
FiniteAsRule ==
    FiniteDecimal =>
        /\ last.result.err = ""
        /\ last.result.type = RuleOf(last.value)
        /\ last.result.type.precision <= 38
        /\ (Max(last.value.nd, last.value.nd + last.value.exp) > 38) =>
               last.result.type.scale <= 38

\* A Decimal that is not finite yields Float.
NonFiniteAsFloat ==
    (/\ last.op = "infer_type"
     /\ last.value.py = "Decimal"
     /\ last.value.special # "") =>
        last.result.err = "" /\ last.result.type = Plain("Float")

\* C23: a finite Decimal with d digits and exponent e yields Numeric with
\* scale 0 and precision d+e when e >= 0, scale |e| and precision d when
\* e < 0, (1, 0) for zero, the precision never above 38 and the scale at
\* most 38 when the precision was capped; a Decimal that is not finite
\* yields Float.
C23_DecimalRule == FiniteAsRule /\ NonFiniteAsFloat

\* C24: merge is commutative, merge(a, b) and merge(b, a) having the same
\* kind and parameters; Integer with Float gives Float, Date with DateTime
\* DateTime, Numeric with Integer that Numeric, Numeric with Float Float,
\* and Numeric(10,2) with Numeric(8,3) Numeric(10,3).
C24_MergeCommutes ==
    last.op = "merge_types" =>
        /\ last.result = MergeTypes(last.type2, last.type1)
        /\ (last.type1.kind = "Integer" /\ last.type2.kind = "Float") =>
               last.result = Plain("Float")
        /\ (last.type1.kind = "Date" /\ last.type2.kind = "DateTime") =>
               last.result = Plain("DateTime")
        /\ (last.type1.kind = "Numeric" /\ last.type2.kind = "Integer") =>
               last.result = last.type1
        /\ (last.type1.kind = "Numeric" /\ last.type2.kind = "Float") =>
               last.result = Plain("Float")
        /\ (last.type1 = NumericOf(10, 2) /\ last.type2 = NumericOf(8, 3)) =>
               last.result = NumericOf(10, 3)

C24_Witness ==
    /\ last.op = "merge_types"
    /\ last.type1 = NumericOf(8, 3)
    /\ last.type2 = NumericOf(10, 2)
    /\ last.result = NumericOf(10, 3)

\* The filter of the last build names a column absent from the table, uses
\* an operator outside the supported set, gives between an operand that is
\* not a sequence of two, or gives in or not_in one that is no sequence.
Faulty(filters) ==
    \E c \in DOMAIN filters :
        \/ c \notin TableColumns
        \/ /\ filters[c].op = "map"
           /\ \E i \in 1..Len(filters[c].clauses) :
                 LET cl == filters[c].clauses[i]
                 IN  \/ cl.op \notin Operators
                     \/ /\ cl.op = "between"
                        /\ ~(cl.arg.kind \in {"list", "tuple"}
                             /\ Len(cl.arg.items) = 2)
                     \/ /\ cl.op \in {"in", "not_in"}
                        /\ cl.arg.kind \notin {"list", "tuple"}

\* A column specification of the last parse_order_by names an absent column.
AbsentOrder(order_by) ==
    \E i \in 1..Len(order_by.items) :
        LET x == order_by.items[i]
        IN  IF Len(x) > 0 /\ Head(x) = "-"
            THEN Tail(x) \notin TableColumns
            ELSE x \notin TableColumns

\* C25: build raises QueryError and returns no predicate whenever the
\* filter names an absent column, uses an unsupported operator, gives
\* between an operand that is not a 2-element sequence or gives in or
\* not_in a non-sequence operand, whatever its other entries; parse_order_by
\* raises QueryError for an absent column.
C25_BadFilterRaises ==
    /\ (last.op = "build" /\ Faulty(last.filters)) =>
          last.result.tag = "QueryError" /\ last.result.f = NoFilter
    /\ (last.op = "parse_order_by" /\ AbsentOrder(last.order_by)) =>
          last.result.tag = "QueryError"

C25_Witness ==
    /\ last.op = "build"
    /\ DOMAIN last.filters = {"name", "age"}
    /\ last.filters["name"] = Eq(1)
    /\ last.filters["age"] = Map(<<Clause(">=", Scalar(1)),
                                   Clause("between", ListOf(<<1, 2, 3>>))>>)
    /\ last.result.tag = "QueryError"

\* The relation an operator names holds between the value x and the
\* operand: comparison, membership, inclusive range. None is below no
\* number and above none; it differs from every number and is in no list
\* of numbers.
Means(x, operator, arg) ==
    CASE operator \in {"=", "==", "is"} -> x = arg.items[1]
      [] operator \in {"!=", "is_not"} -> x # arg.items[1]
      [] operator = ">" -> x # NULL /\ x > arg.items[1]
      [] operator = ">=" -> x # NULL /\ x >= arg.items[1]
      [] operator = "<" -> x # NULL /\ x < arg.items[1]
      [] operator = "<=" -> x # NULL /\ x <= arg.items[1]
      [] operator = "in" -> \E i \in 1..Len(arg.items) : arg.items[i] = x
      [] operator = "not_in" -> \A i \in 1..Len(arg.items) : arg.items[i] # x
      [] operator = "between" ->
            x # NULL /\ arg.items[1] <= x /\ x <= arg.items[2]

\* The row r satisfies every entry of the filters.
Satisfies(r, filters) ==
    \A c \in DOMAIN filters :
        IF filters[c].op = "map"
        THEN \A i \in 1..Len(filters[c].clauses) :
                Means(r[c], filters[c].clauses[i].op, filters[c].clauses[i].arg)
        ELSE filters[c].op = "nop" \/ r[c] = filters[c].v

\* The last call was a find without pagination on columns of the table.
FoundAll ==
    /\ last.op = "find" /\ last.limit = Undefined /\ last.offset = 0
    /\ last.order_by = NoOrder
    /\ DOMAIN last.filters \subseteq last.pre.cols

Yielded == {last.out.val[i] : i \in 1..Len(last.out.val)}

\* C26: find(**filters) yields exactly the stored rows that
\* satisfy every filter entry, equality for a bare value and the relation
\* named by each operator of a mapping; an empty filter yields every row.
C26_FindYieldsSatisfying ==
    FoundAll =>
        /\ last.out.tag = "ok"
        /\ Yielded = {r \in last.pre.rows : Satisfies(r, last.filters)}
        /\ Len(last.out.val) = Cardinality(Yielded)

\* What the last find would yield without pagination.
Unpaged ==
    TableFindPage(cfg, last.pre, Undefined, 0, last.order_by, last.filters).val

\* Positions k to k+n-1 of rows, counted from 0; from k on without n.
Slice(rows, n, k) ==
    SubSeq(rows, k + 1,
           IF n = Undefined THEN Len(rows) ELSE Min(k + n, Len(rows)))

\* C27: find(_limit=n, _offset=k, ...) yields exactly the rows at positions
\* k to k+n-1 of what it would yield without pagination, hence at most n
\* rows, for every n >= 0 and k >= 0; without _limit it yields every row
\* from position k on.
C27_PageIsSlice ==
    (last.op = "find" /\ last.out.tag = "ok") =>
        /\ last.out.val = Slice(Unpaged, last.limit, last.offset)
        /\ last.limit # Undefined => Len(last.out.val) <= last.limit

\* The maximal runs of word characters of s: (first, last) positions.
Words(s) ==
    {w \in (1..Len(s)) \X (1..Len(s)) :
        /\ w[1] <= w[2]
        /\ \A i \in w[1]..w[2] : IsWordChar(Char(s, i))
        /\ (w[1] = 1 \/ ~IsWordChar(Char(s, w[1] - 1)))
        /\ (w[2] = Len(s) \/ ~IsWordChar(Char(s, w[2] + 1)))}

\* The text the claim accepts: trimmed, it is not empty, its first six
\* characters spell SELECT in some letter case and none of its words is a
\* forbidden keyword in some letter case.
Acceptable(sql) ==
    /\ Strip(sql) # ""
    /\ Len(Strip(sql)) >= 6
    /\ \A i \in 1..6 : UpperChar(Char(Strip(sql), i)) = Char("SELECT", i)
    /\ \A w \in Words(Strip(sql)) :
          Upper(SubSeq(Strip(sql), w[1], w[2])) \notin ForbiddenKeywords

\* C28: validate_readonly accepts a text exactly when, trimmed, it is
\* non-empty, begins with SELECT in any letter case and contains no
\* forbidden keyword as a whole word in any letter case; a read-only
\* database's query executes a text only if it is accepted and otherwise
\* fails without executing anything.
C28_ReadOnlyQueryGate ==
    /\ last.op = "validate_readonly" =>
          (last.result = "" <=> Acceptable(last.sql))
    /\ (last.op = "query" /\ cfg.ro) =>
          /\ last.name \in last.stmts => Acceptable(last.name)
          /\ ~Acceptable(last.name) =>
                /\ last.out.tag = "err"
                /\ last.stmts = {}
                /\ db = last.pre

C28_Witness ==
    /\ last.op = "query" /\ cfg.ro
    /\ last.name = " select created"
    /\ last.stmts = {" select created"}

\* The existing-row lookup of the last upsert: find_one on the original
\* keys, in the state the ensure block left.
Lookup ==
    TableFindOne(cfg, AtLookup.w,
                 [k \in last.keys |-> Eq(Get(last.row, k))])

\* The insert the last upsert falls through to after its lookup.
InsertAfterLookup ==
    TableInsert(cfg, Lookup.w, last.row,
                IF Eff(cfg, last.ensure) THEN "true" ELSE "false")

Current(w) == w.h = NoHandle \/ w.cols \subseteq w.h

\* The ensure block of the last upsert: the table fetched, then the world
\* after ensure_columns, in which create_index takes the cached handle.
TableOfEnsure == SchemaGetTable(last.pre, TRUE, cfg.pk)

AfterEnsure ==
    IF TableOfEnsure.err # "" THEN TableOfEnsure
    ELSE EnsureColumns(TableOfEnsure.w, TableOfEnsure.val,
                       InferTypesFromRow(last.row, Dialect))

\* The last upsert reached the create_index of its ensure block.
IndexStepRuns ==
    /\ last.op = "upsert"
    /\ Eff(cfg, last.ensure)
    /\ AfterEnsure.err = ""
    /\ last.keys \cap (TableOfEnsure.val \cup DOMAIN last.row) # {}

\* C30: whenever a Table operation validates or uses column names against
\* its cached handle the handle has every column added before through the
\* same Table: between operations, and inside upsert where create_index
\* reads the handle after ensure_columns has added columns.
C30_HandleIsCurrent ==
    /\ Current(db)
    /\ IndexStepRuns => Current(AfterEnsure.w)

\* C40: merge is idempotent: merge(t, t) has the kind and the parameters
\* of t, for every column type descriptor t.
C40_MergeIdempotent ==
    (last.op = "merge_types" /\ last.type1 = last.type2) =>
        last.result = last.type1

\* insert applied to the rows of a batch one after the other.
RECURSIVE InsertEach(_, _, _, _, _)
InsertEachNext(x, c, rows, ensure, i) ==
    IF x.err # "" THEN x ELSE InsertEach(c, x.w, rows, ensure, i + 1)

InsertEach(c, w, rows, ensure, i) ==
    IF i > Len(rows) THEN Step(w, "", Len(rows))
    ELSE InsertEachNext(TableInsert(c, w, rows[i], ensure), c, rows, ensure, i)

\* An insert_many, under a primary-key kind that has a generator, of rows
\* that all omit the primary-key column.
KeylessBatch ==
    /\ last.op = "insert_many"
    /\ cfg.pk.kind # "integer"
    /\ last.batch # <<>>
    /\ \A i \in DOMAIN last.batch : cfg.pk.col \notin DOMAIN last.batch[i]

\* C39: the primary-key value assembly step applies to insert_many as it
\* does to insert: under a kind with a generator, a batch of rows omitting
\* the primary-key column that insert stores row by row is stored by
\* insert_many, every row with a generated primary-key value.
C39_InsertManyGeneratesKeys ==
    (KeylessBatch /\
     InsertEach(cfg, last.pre, last.batch, last.ensure, 1).err = "") =>
        /\ last.out.tag = "ok"
        /\ Cardinality(NewRows) = Len(last.batch)
        /\ \A new \in NewRows : IsUuid(new[cfg.pk.col])

\* C37: update never modifies a row that fails a caller-supplied keyword
\* filter: called with keys and keyword filters, it changes a row only if
\* the row equals row on the keys taken from it and satisfies every
\* keyword filter.
C37_UpdateRespectsFilters ==
    (/\ last.op = "update"
     /\ last.keys # {}
     /\ DOMAIN last.filters \subseteq last.pre.cols) =>
        \A r \in last.pre.rows \ db.rows :
            /\ \A k \in ValidKeysOfCall : r[k] = last.row[k]
            /\ Satisfies(r, last.filters)

\* An upsert, on columns of the table only, one of whose keys is absent
\* from row.
KeyAbsentFromRow ==
    /\ last.op = "upsert"
    /\ last.pre.ex
    /\ last.keys \subseteq last.pre.cols
    /\ DOMAIN last.row \subseteq last.pre.cols
    /\ last.keys \ DOMAIN last.row # {}

\* C35: a name listed in keys that is an existing column but absent from
\* row never makes upsert fail: the call completes normally, by updating
\* the matching row or inserting a new one, in every table state.
C35_AbsentKeyNeverFails ==
    KeyAbsentFromRow =>
        /\ last.out.tag = "ok"
        /\ \/ "UPDATE" \in last.stmts /\ Cardinality(db.rows) = Cardinality(last.pre.rows)
           \/ "INSERT" \in last.stmts /\ Cardinality(NewRows) = 1

\* C36: when upsert takes the update branch, the rows it modifies are
\* exactly the rows matching the lookup filter built from keys (each key
\* compared with row's value, or with null when row lacks it); no stored
\* row outside that set is changed.
C36_UpdateBranchWritesMatches ==
    (last.op = "upsert" /\ "UPDATE" \in last.stmts) =>
        db.rows = {IF r \in KeyMatches
                   THEN Written(r, Without(last.row, last.keys))
                   ELSE r : r \in last.pre.rows}

\* An upsert of a row that can be stored and whose fields are all named in
\* keys.
OnlyKeyFields ==
    /\ last.op = "upsert"
    /\ DOMAIN last.row # {}
    /\ DOMAIN last.row \subseteq last.keys
    /\ Storable

\* C38: upsert(row, keys) with a row whose fields are all named in keys,
\* when a matching row exists, issues no UPDATE, raises no error and leaves
\* every stored row unchanged; when no row matches it inserts the row.
C38_OnlyKeysWritesNothing ==
    OnlyKeyFields =>
        IF last.keys \subseteq last.pre.cols /\ KeyMatches # {}
        THEN /\ "UPDATE" \notin last.stmts
             /\ last.out.tag = "ok"
             /\ db.rows = last.pre.rows
        ELSE /\ last.out.tag = "ok"
             /\ \E new \in NewRows :
                   /\ db.rows = last.pre.rows \cup {new}
                   /\ \A c \in DOMAIN last.row : new[c] = last.row[c]

\* Every column of the table w has one type.
OneTypeEach(w) ==
    \A c \in w.cols : Cardinality({p \in w.types : p[1] = c}) = 1

\* C34: no Table facade operation drops, renames or retypes an existing
\* column: from one call to the next the table stays, every column it had
\* is still a column and has the type it had, whatever the inferred types
\* of the values written since; the column set only grows.
C34_ColumnsOnlyGrow ==
    [][db.ex => /\ db'.ex
                /\ db.cols \subseteq db'.cols
                /\ db.types \subseteq db'.types
                /\ OneTypeEach(db')]_vars

\* An insert or upsert has stored, in a column that existed, a value whose
\* inferred type is not the column's.
C34_Witness ==
    /\ last.op \in {"insert", "upsert"}
    /\ last.out.tag = "ok"
    /\ \E c \in DOMAIN last.row \cap last.pre.cols :
          /\ <<c, InferType(PyValue(last.row[c]), Dialect).type>> \notin db.types
          /\ \E r \in NewRows : r[c] = last.row[c]

\* C31: under concurrent callers sharing one schema manager, get_table for
\* a table that exists in the backend returns its structure: a caller whose
\* table existed when it called never takes the create-table path and never
\* ends with TableNotFoundError, whatever another caller's reflect() does
\* meanwhile.
C31_GetTableFindsExisting ==
    \A p \in Callers :
        Self(p).was =>
            /\ Self(p).pc \notin {"define", "check", "create"}
            /\ Self(p).out.err # "TableNotFoundError"

\* Both callers have run insert with ensure=True to the end, each having
\* called when the table, and so the column of its row, was missing.
BothInserted ==
    \A p \in Callers :
        Self(p).op = "insert" /\ Self(p).pc = "done" /\ ~Self(p).was

\* C32: the schema manager tolerates concurrent calls: when two callers
\* concurrently run an ensure-schema write that needs the same missing
\* table or the same missing column, both calls complete without error, the
\* object exists and each caller's row is stored.
C32_ConcurrentEnsureSucceeds ==
    BothInserted =>
        /\ \A p \in Callers : Self(p).out.tag = "ok"
        /\ db.ex /\ "name" \in db.cols
        /\ Cardinality(db.rows) = Cardinality(Callers)

\* The stored rows whose key column name has the value both upserts carry.
RowsOfKey == {r \in db.rows : r["name"] = 1}

\* Both callers have run upsert by the key name to the end, each after a
\* lookup that found no row.
BothMissed ==
    \A p \in Callers :
        /\ Self(p).op = "upsert" /\ Self(p).pc = "done"
        /\ Self(p).out.tag = "ok"
        /\ Self(p).seen = {}

\* C33: two concurrent upserts with the same key values, on a table holding
\* no matching row, can both observe "no existing row" and both insert:
\* whenever both have completed after such a lookup, two rows with that key
\* are stored, one returned to each caller, since nothing between the lookup
\* and the write keeps the other caller out.
C33_BothUpsertsInsert ==
    BothMissed =>
        /\ Cardinality(RowsOfKey) = Cardinality(Callers)
        /\ \A p, q \in Callers :
              p # q => Self(p).out.val # Self(q).out.val
        /\ \A p \in Callers : \E r \in RowsOfKey : r[db.pk] = Self(p).out.val

\* Two upserts of the same key have both inserted.
C33_Witness ==
    /\ BothMissed
    /\ Cardinality(RowsOfKey) = Cardinality(Callers)
    /\ "UPDATE" \notin db.stmts

====
